---- MODULE Spec2Model ----
(***************************************************************************)
(* AnyCache: the master's two-tier inode tree over its durable inode store *)
(* (src/master/inode_tree.cpp, src/master/inode_store.cpp) and the         *)
(* worker's block cache engine (src/worker/block_store.cpp,                *)
(* cache_manager.cpp, storage_tier.cpp, meta_store.cpp).                   *)
(*                                                                         *)
(* The two subsystems share no state.  SpecMaster runs the inode tree,     *)
(* SpecWorker runs the block engine; each leaves the other's variables     *)
(* untouched.                                                              *)
(***************************************************************************)
EXTENDS Integers, Sequences, FiniteSets, TLC

\* ------------------------------------------------------------------------
\* Bounds of the model
\* ------------------------------------------------------------------------
\* Path components handed to the tree (SplitPath output).
Names == {"a", "b"}
\* Longest path, in components.
MaxDepth == 2
\* Inode ids are allocated only while next_id_ stays at or below this.
MaxId == 4
\* Capacity of every storage tier, and the largest block, in bytes.
Capacity == 2
\* Block ids handed to the block engine.
MaxBlocks == 2
\* Block engine calls that take effect, over the whole run.
MaxWOps == 4
\* Largest file size passed to complete_file / update_size.
MaxSize == 1
\* The id pre-allocation batch, InodeTree::kIdAllocBatchSize.  The source
\* value is 1000 (inode_tree.h:114); it is scaled down here so that a batch
\* is exhausted, and the cursor persisted again, within the id bound.
kIdAllocBatchSize == 2
\* Handler calls that take effect, over the whole run (calls rejected
\* without any effect, and process starts, are not counted).
MaxOps == 3
\* The worker threads of a data mover (num_threads).
NumThreads == 2
\* The tasks submitted to a data mover.
MaxTasks == 2
\* Coordinator calls over one run (clock ticks are not counted).
MaxCOps == 5
MaxCacheBlocks == 3
MaxCacheOps == 5
MaxStoreIds == 2
MaxBatch == 2
MaxStoreOps == 3
\* The clock runs from 0 to MaxTime.
MaxTime == 2
\* WorkerManager::heartbeat_timeout_ms_, in clock ticks (30000 ms in
\* config.cpp:150).
heartbeat_timeout_ms_ == 1
\* The total tier capacity a worker process reports.
WorkerCapacity == 2
\* The calls each client thread of the block store makes.
MaxWrites == 2
MaxReads == 2
MaxPromotes == 2
MaxRemoves == 1
\* The rounds of a worker's heartbeat loop that are looked at.
MaxRounds == 2
\* kBlockIndexBits, the width of the block index inside a BlockId (24 in
\* types.h).
kBlockIndexBits == 1
\* kDefaultBlockSize in bytes (64 MB in types.h).
kDefaultBlockSize == 1
\* The largest file size given to complete_file and truncate.
MaxFileSize == 2

\* ------------------------------------------------------------------------
\* Generic helpers for maps with a growing key set (unordered_map, RocksDB CF)
\* ------------------------------------------------------------------------
EmptyFn == [x \in {} |-> 0]
Put(f, k, v) == [x \in (DOMAIN f) \cup {k} |-> IF x = k THEN v ELSE f[x]]
Erase(f, k) == [x \in (DOMAIN f) \ {k} |-> f[x]]
Restrict(f, S) == [x \in (DOMAIN f) \cap S |-> f[x]]

\* ------------------------------------------------------------------------
\* Master: types
\* ------------------------------------------------------------------------
kInvalidInodeId == 0
root_id_ == 1

\* struct Inode with its default member initialisers.  Timestamps, owner,
\* group and block_size play no part in the modelled operations.
DefaultInode ==
  [id |-> kInvalidInodeId, parent_id |-> kInvalidInodeId, name |-> "",
   is_directory |-> FALSE, size |-> 0, mode |-> 420, is_complete |-> TRUE,
   children |-> EmptyFn]

\* The root inode built by the constructor and by Recover step 4.
RootInode ==
  [DefaultInode EXCEPT !.id = root_id_, !.is_directory = TRUE, !.mode = 493]

\* InodeEntry record: what SerializeInodeEntry stores under the id key.
\* The id and the children map are not stored.
SerializeInodeEntry(inode) ==
  [parent_id |-> inode.parent_id, size |-> inode.size, mode |-> inode.mode,
   is_directory |-> inode.is_directory, is_complete |-> inode.is_complete,
   name |-> inode.name]

\* DeserializeInodeEntry: the id comes from the key, children start empty.
DeserializeInodeEntry(id, e) ==
  [id |-> id, parent_id |-> e.parent_id, name |-> e.name,
   is_directory |-> e.is_directory, size |-> e.size, mode |-> e.mode,
   is_complete |-> e.is_complete, children |-> EmptyFn]

NullEntry == SerializeInodeEntry(DefaultInode)

\* Operations of a rocksdb::WriteBatch as the InodeStore::Batch* helpers
\* append them.
BatchPutInode(id, inode) ==
  [op |-> "PutInode", id |-> id, pid |-> 0, name |-> "",
   entry |-> SerializeInodeEntry(inode)]
BatchDeleteInode(id) ==
  [op |-> "DeleteInode", id |-> id, pid |-> 0, name |-> "", entry |-> NullEntry]
BatchPutEdge(pid, name, child) ==
  [op |-> "PutEdge", id |-> child, pid |-> pid, name |-> name,
   entry |-> NullEntry]
BatchDeleteEdge(pid, name) ==
  [op |-> "DeleteEdge", id |-> 0, pid |-> pid, name |-> name,
   entry |-> NullEntry]
BatchPutNextId(v) ==
  [op |-> "PutNextId", id |-> v, pid |-> 0, name |-> "", entry |-> NullEntry]

\* The durable store: inodes CF, edges CF, and the allocator cursor key
\* (0 = key absent).
EmptyDb == [inodes |-> EmptyFn, edges |-> EmptyFn, next_id |-> 0]

ApplyOp(db, o) ==
  CASE o.op = "PutInode" -> [db EXCEPT !.inodes = Put(@, o.id, o.entry)]
    [] o.op = "DeleteInode" -> [db EXCEPT !.inodes = Erase(@, o.id)]
    [] o.op = "PutEdge" -> [db EXCEPT !.edges = Put(@, <<o.pid, o.name>>, o.id)]
    [] o.op = "DeleteEdge" -> [db EXCEPT !.edges = Erase(@, <<o.pid, o.name>>)]
    [] o.op = "PutNextId" -> [db EXCEPT !.next_id = o.id]

\* A non-atomic write: only the inodes column family of the batch is applied.
RECURSIVE WriteInodesOnly(_, _)
WriteInodesOnly(db, batch) ==
  IF batch = <<>> THEN db
  ELSE WriteInodesOnly(
         IF Head(batch).op \in {"PutEdge", "DeleteEdge"} THEN db
         ELSE ApplyOp(db, Head(batch)),
         Tail(batch))

\* rocksdb::DB::Write of a WriteBatch: all operations, in order, atomically.
RECURSIVE Write(_, _)
Write(db, batch) ==
  IF batch = <<>> THEN db ELSE Write(ApplyOp(db, Head(batch)), Tail(batch))

\* ------------------------------------------------------------------------
\* Master: the handlers of InodeTree, as functions of the tree's state
\* ------------------------------------------------------------------------
\* A handler runs on a record T:
\*   dir        dir_inodes_              next_id    next_id_
\*   alloc_end  alloc_end_               db         the store behind store_
\*   k          CommitBatch calls made so far by this handler
\*   ok         whether the latest CommitBatch returned OK
\*   ret        the id returned by the latest AllocateId
\*   log        the batches that CommitBatch wrote, in order
\* `fails` is the set of CommitBatch calls (by position in the handler) on
\* which db_->Write reports an error.

\* InodeStore::CommitBatch: one atomic Write; an error leaves the store as
\* it was.
CommitBatch(T, batch, fails) ==
  LET n == T.k + 1
      ok == n \notin fails
  IN [T EXCEPT !.k = n, !.ok = ok,
               !.db = IF ok THEN Write(@, batch) ELSE @,
               !.log = IF ok THEN Append(@, batch) ELSE @]

\* InodeTree::AllocateId: the cursor commit is best-effort, its status is
\* dropped.
AllocateId(T, fails) ==
  LET id == T.next_id
      T1 == [T EXCEPT !.next_id = id + 1, !.ret = id]
  IN IF id >= T.alloc_end
     THEN CommitBatch([T1 EXCEPT !.alloc_end = id + kIdAllocBatchSize],
                      <<BatchPutNextId(id + kIdAllocBatchSize)>>, fails)
     ELSE T1

\* std::unordered_map::operator[] on dir_inodes_: a missing key is inserted
\* with a default-constructed Inode.
Touch(dir, id) == IF id \in DOMAIN dir THEN dir ELSE Put(dir, id, DefaultInode)

\* InodeTree::ResolvePathLocked.
RECURSIVE ResolvePathLocked(_, _, _)
ResolvePathLocked(dir, parts, current) ==
  IF parts = <<>> THEN [status |-> "OK", id |-> current]
  ELSE IF current \notin DOMAIN dir THEN [status |-> "NotFound", id |-> 0]
  ELSE IF ~dir[current].is_directory
       THEN [status |-> "InvalidArgument", id |-> 0]
  ELSE IF Head(parts) \notin DOMAIN dir[current].children
       THEN [status |-> "NotFound", id |-> 0]
  ELSE ResolvePathLocked(dir, Tail(parts), dir[current].children[Head(parts)])

\* The parent-resolution loop written out in CreateFile, Delete and Rename:
\* walks every component but the last; no is_directory check on the way.
RECURSIVE ResolveParent(_, _, _)
ResolveParent(dir, parts, current) ==
  IF Len(parts) <= 1 THEN [status |-> "OK", id |-> current]
  ELSE IF current \notin DOMAIN dir THEN [status |-> "NotFound", id |-> 0]
  ELSE IF Head(parts) \notin DOMAIN dir[current].children
       THEN [status |-> "NotFound", id |-> 0]
  ELSE ResolveParent(dir, Tail(parts), dir[current].children[Head(parts)])

Last(parts) == parts[Len(parts)]

Result(T, status, out) == [T |-> T, status |-> status, out |-> out]

\* InodeTree::CreateFile (two-tier mode).
CreateFile(T, parts, mode, fails) ==
  IF parts = <<>> THEN Result(T, "InvalidArgument", 0)
  ELSE
    LET pr == ResolveParent(T.dir, parts, root_id_) IN
    IF pr.status # "OK" THEN Result(T, pr.status, 0)
    ELSE
      LET parent_id == pr.id
          T0 == [T EXCEPT !.dir = Touch(@, parent_id)]
          parent == T0.dir[parent_id]
          filename == Last(parts)
      IN IF ~parent.is_directory THEN Result(T0, "InvalidArgument", 0)
         ELSE IF filename \in DOMAIN parent.children
              THEN Result(T0, "AlreadyExists", 0)
         ELSE
           LET A == AllocateId(T0, fails)
               new_id == A.ret
               inode == [DefaultInode EXCEPT !.id = new_id,
                           !.parent_id = parent_id, !.name = filename,
                           !.is_directory = FALSE, !.mode = mode,
                           !.is_complete = FALSE]
               C == CommitBatch(A, <<BatchPutInode(new_id, inode),
                                     BatchPutEdge(parent_id, filename, new_id)>>,
                                fails)
           IN IF ~C.ok THEN Result(C, "IOError", 0)
              ELSE Result(
                     [C EXCEPT !.dir = Put(@, parent_id,
                        [parent EXCEPT !.children = Put(@, filename, new_id)])],
                     "OK", new_id)

\* InodeTree::CreateDirectory (two-tier mode): the loop over the components,
\* from component i with `current` as the directory reached so far.
RECURSIVE CreateDirectoryLoop(_, _, _, _, _, _, _)
CreateDirectoryLoop(T, parts, i, current, mode, recursive, fails) ==
  IF i > Len(parts) THEN Result(T, "OK", current)
  ELSE
    LET T0 == [T EXCEPT !.dir = Touch(@, current)]
        node == T0.dir[current]
    IN IF ~node.is_directory THEN Result(T0, "InvalidArgument", 0)
       ELSE IF parts[i] \in DOMAIN node.children
            THEN IF i = Len(parts)
                 THEN Result(T0, "AlreadyExists", node.children[parts[i]])
                 ELSE CreateDirectoryLoop(T0, parts, i + 1,
                        node.children[parts[i]], mode, recursive, fails)
       ELSE IF ~recursive /\ i < Len(parts) THEN Result(T0, "NotFound", 0)
       ELSE
         LET A == AllocateId(T0, fails)
             new_id == A.ret
             d == [DefaultInode EXCEPT !.id = new_id, !.parent_id = current,
                     !.name = parts[i], !.is_directory = TRUE, !.mode = mode]
             C == CommitBatch(A, <<BatchPutInode(new_id, d),
                                   BatchPutEdge(current, parts[i], new_id)>>,
                              fails)
         IN IF ~C.ok THEN Result(C, "IOError", 0)
            ELSE
              LET linked == Put(C.dir, current,
                              [node EXCEPT !.children = Put(@, parts[i], new_id)])
                  D == [C EXCEPT !.dir = Put(linked, new_id, d)]
              IN CreateDirectoryLoop(D, parts, i + 1, new_id, mode, recursive,
                                     fails)

CreateDirectory(T, parts, mode, recursive, fails) ==
  IF parts = <<>> THEN Result(T, "OK", root_id_)
  ELSE CreateDirectoryLoop(T, parts, 1, root_id_, mode, recursive, fails)

\* InodeStore::GetInode.
GetInode(db, id) ==
  IF id \in DOMAIN db.inodes
  THEN [status |-> "OK", inode |-> DeserializeInodeEntry(id, db.inodes[id])]
  ELSE [status |-> "NotFound", inode |-> DefaultInode]

\* InodeTree::CompleteFile (two-tier mode).
CompleteFile(T, id, size, fails) ==
  LET g == GetInode(T.db, id) IN
  IF g.status # "OK"
  THEN IF id \notin DOMAIN T.dir THEN Result(T, "NotFound", 0)
       ELSE Result(T, "InvalidArgument", 0)
  ELSE IF g.inode.is_directory THEN Result(T, "InvalidArgument", 0)
  ELSE
    LET inode == [g.inode EXCEPT !.size = size, !.is_complete = TRUE]
        C == CommitBatch(T, <<BatchPutInode(id, inode)>>, fails)
    IN Result(C, IF C.ok THEN "OK" ELSE "IOError", 0)

\* InodeTree::UpdateSize (two-tier mode).
UpdateSize(T, id, new_size, fails) ==
  IF id \in DOMAIN T.dir
  THEN LET inode == [T.dir[id] EXCEPT !.size = new_size]
           T0 == [T EXCEPT !.dir = Put(@, id, inode)]
           C == CommitBatch(T0, <<BatchPutInode(id, inode)>>, fails)
       IN Result(C, IF C.ok THEN "OK" ELSE "IOError", 0)
  ELSE
    LET g == GetInode(T.db, id) IN
    IF g.status # "OK" THEN Result(T, g.status, 0)
    ELSE
      LET inode == [g.inode EXCEPT !.size = new_size]
          C == CommitBatch(T, <<BatchPutInode(id, inode)>>, fails)
      IN Result(C, IF C.ok THEN "OK" ELSE "IOError", 0)

\* A set as a sequence, in some fixed order (iteration over an unordered_map).
RECURSIVE SetToSeq(_)
SetToSeq(S) ==
  IF S = {} THEN <<>>
  ELSE LET x == CHOOSE y \in S : TRUE IN <<x>> \o SetToSeq(S \ {x})

\* Whether the depth-first walk from dir_id over the in-memory children maps
\* comes back to a directory it is still inside.  CollectSubtreeForDeletion
\* and RemoveDirSubtreeFromMemory keep no visited set, so on such a map their
\* recursion does not end.
RECURSIVE Loops(_, _, _)
Loops(dir, dir_id, path) ==
  /\ dir_id \in DOMAIN dir
  /\ \/ dir_id \in path
     \/ \E n \in DOMAIN dir[dir_id].children :
          Loops(dir, dir[dir_id].children[n], path \cup {dir_id})

\* InodeTree::CollectSubtreeForDeletion: the <<parent, name, child>> links
\* below dir_id, following the in-memory children maps.
RECURSIVE CollectSubtreeForDeletion(_, _)
CollectSubtreeForDeletion(dir, dir_id) ==
  IF dir_id \notin DOMAIN dir THEN {}
  ELSE UNION {
         {<<dir_id, n, dir[dir_id].children[n]>>} \cup
           (IF dir[dir_id].children[n] \in DOMAIN dir
            THEN CollectSubtreeForDeletion(dir, dir[dir_id].children[n])
            ELSE {})
         : n \in DOMAIN dir[dir_id].children }

\* InodeTree::RemoveDirSubtreeFromMemory: every id below `id` leaves
\* dir_inodes_; `id` itself is left to the caller.
RemoveDirSubtreeFromMemory(dir, id) ==
  Restrict(dir, (DOMAIN dir) \ {t[3] : t \in CollectSubtreeForDeletion(dir, id)})

\* InodeTree::Delete (two-tier mode).
Delete(T, parts, recursive, fails) ==
  IF parts = <<>> THEN Result(T, "InvalidArgument", 0)
  ELSE
    LET r == ResolvePathLocked(T.dir, parts, root_id_) IN
    IF r.status # "OK" THEN Result(T, r.status, 0)
    ELSE
      LET id == r.id
          is_dir == id \in DOMAIN T.dir
          target_name == Last(parts)
          pr == ResolveParent(T.dir, parts, root_id_)
      IN IF is_dir /\ DOMAIN T.dir[id].children # {} /\ ~recursive
         THEN Result(T, "InvalidArgument", 0)
         ELSE IF is_dir /\ recursive /\ Loops(T.dir, id, {})
              THEN Result(T, "Crash", 0)
         ELSE IF ~is_dir /\ pr.status # "OK" THEN Result(T, "NotFound", 0)
         ELSE
           LET parent_id == IF is_dir THEN T.dir[id].parent_id ELSE pr.id
               sub == IF is_dir /\ recursive
                      THEN CollectSubtreeForDeletion(T.dir, id) ELSE {}
               batch == <<BatchDeleteInode(id),
                          BatchDeleteEdge(parent_id, target_name)>>
                        \o SetToSeq({BatchDeleteEdge(t[1], t[2]) : t \in sub})
                        \o SetToSeq({BatchDeleteInode(t[3]) : t \in sub})
               C == CommitBatch(T, batch, fails)
           IN IF ~C.ok THEN Result(C, "IOError", 0)
              ELSE
                LET d1 == IF parent_id \in DOMAIN C.dir
                          THEN Put(C.dir, parent_id,
                                 [C.dir[parent_id] EXCEPT
                                    !.children = Erase(@, target_name)])
                          ELSE C.dir
                    d2 == IF is_dir /\ recursive
                          THEN RemoveDirSubtreeFromMemory(d1, id) ELSE d1
                    d3 == IF is_dir THEN Erase(d2, id) ELSE d2
                IN Result([C EXCEPT !.dir = d3], "OK", 0)

\* InodeTree::Rename (two-tier mode).
Rename(T, src_parts, dst_parts, fails) ==
  IF src_parts = <<>> \/ dst_parts = <<>> THEN Result(T, "InvalidArgument", 0)
  ELSE
    LET r == ResolvePathLocked(T.dir, src_parts, root_id_) IN
    IF r.status # "OK" THEN Result(T, r.status, 0)
    ELSE
      LET src_id == r.id
          dp == ResolveParent(T.dir, dst_parts, root_id_)
      IN IF dp.status # "OK" THEN Result(T, "NotFound", 0)
         ELSE
           LET dst_parent_id == dp.id
               new_name == Last(dst_parts)
               T0 == [T EXCEPT !.dir = Touch(@, dst_parent_id)]
               new_parent == T0.dir[dst_parent_id]
           IN IF ~new_parent.is_directory
              THEN Result(T0, "InvalidArgument", 0)
              ELSE IF new_name \in DOMAIN new_parent.children
                   THEN Result(T0, "AlreadyExists", 0)
              ELSE
                LET is_dir == src_id \in DOMAIN T0.dir
                    sp == ResolveParent(T0.dir, src_parts, root_id_)
                IN IF ~is_dir /\ sp.status # "OK"
                   THEN Result(T0, "NotFound", 0)
                   ELSE
                     LET old_parent_id ==
                           IF is_dir THEN T0.dir[src_id].parent_id ELSE sp.id
                         old_name ==
                           IF is_dir THEN T0.dir[src_id].name
                           ELSE Last(src_parts)
                         g == GetInode(T0.db, src_id)
                     IN IF ~is_dir /\ g.status # "OK"
                        THEN Result(T0, g.status, 0)
                        ELSE
                          LET cur == IF is_dir THEN T0.dir[src_id] ELSE g.inode
                              inode == [cur EXCEPT !.parent_id = dst_parent_id,
                                                   !.name = new_name]
                              C == CommitBatch(T0,
                                     <<BatchPutInode(src_id, inode),
                                       BatchDeleteEdge(old_parent_id, old_name),
                                       BatchPutEdge(dst_parent_id, new_name,
                                                    src_id)>>, fails)
                          IN IF ~C.ok THEN Result(C, "IOError", 0)
                             ELSE
                               LET d0 == Touch(C.dir, old_parent_id)
                                   d1 == Put(d0, old_parent_id,
                                           [d0[old_parent_id] EXCEPT
                                              !.children = Erase(@, old_name)])
                                   d2 == Put(d1, dst_parent_id,
                                           [d1[dst_parent_id] EXCEPT
                                              !.children =
                                                Put(@, new_name, src_id)])
                                   d3 == IF is_dir
                                         THEN Put(d2, src_id,
                                                [d2[src_id] EXCEPT
                                                   !.name = new_name,
                                                   !.parent_id = dst_parent_id])
                                         ELSE d2
                               IN Result([C EXCEPT !.dir = d3], "OK", 0)

\* InodeStore::ScanDirectoryInodes: the records whose directory flag is set.
\* A scan that forgets the directory flag test and returns every record.
ScanEveryInode(db) ==
  {DeserializeInodeEntry(id, db.inodes[id]) : id \in DOMAIN db.inodes}

ScanDirectoryInodes(db) ==
  {DeserializeInodeEntry(id, db.inodes[id]) :
     id \in {i \in DOMAIN db.inodes : db.inodes[i].is_directory}}

\* InodeStore::ScanAllEdges: <<parent_id, name, child_id>> for every edge key.
ScanAllEdges(db) == {<<e[1], e[2], db.edges[e]>> : e \in DOMAIN db.edges}

Max(S) == CHOOSE x \in S : \A y \in S : y <= x

\* InodeTree::Recover.
Recover(T, fails) ==
  LET dirs == ScanDirectoryInodes(T.db)
      edges == ScanAllEdges(T.db)
      ids == {d.id : d \in dirs}
      loaded == [id \in ids |->
                   LET d == CHOOSE x \in dirs : x.id = id
                       mine == {e \in edges : e[1] = id}
                   IN [d EXCEPT !.children =
                         [n \in {e[2] : e \in mine} |->
                            (CHOOSE e \in mine : e[2] = n)[3]]]]
      stored_next_id == T.db.next_id
      nxt == IF stored_next_id > 0 THEN stored_next_id
             ELSE Max(ids \cup {1}) + 1
      T1 == [T EXCEPT !.dir = loaded, !.next_id = nxt, !.alloc_end = nxt]
  IN IF root_id_ \in DOMAIN loaded THEN Result(T1, "OK", 0)
     ELSE LET C == CommitBatch(T1, <<BatchPutInode(root_id_, RootInode)>>, fails)
          IN IF ~C.ok THEN Result(C, "IOError", 0)
             ELSE Result([C EXCEPT !.dir = Put(@, root_id_, RootInode)], "OK", 0)

\* ------------------------------------------------------------------------
\* Worker: types and options
\* ------------------------------------------------------------------------
\* enum class TierType.
kMemory == 0
kSSD == 1
kHDD == 2
kInvalidBlockId == 0

\* BlockStore::Options.  The watermarks are the defaults, as percentages
\* (0.95 and 0.80 in the source).  The access threshold is an option the
\* deployment sets; its default is 3, and the model runs with a smaller
\* one so that a block gets hot within the call budget.
auto_promote_access_threshold == 2
auto_evict_high_watermark == 95
auto_evict_low_watermark == 80

\* A handler of the block engine runs on a record W:
\*   tiers   tiers_: tier type -> [capacity_, used_bytes_, blocks_], where
\*           blocks_ maps a block id to its handle's capacity
\*   meta    the MetaStore: block id -> [length, tier, access_count]
\*   map     block_tier_map_
\*   pol     the CachePolicy: [type, order_, freq_map_, freq_lists_, min_freq_]
\*   sizes   CacheManager::block_sizes_
\*   total   CacheManager::total_cached_bytes_
\* `io` is the set of system calls and store calls that fail during the
\* handler, by name.

\* ------------------------------------------------------------------------
\* Worker: StorageTier
\* ------------------------------------------------------------------------
GetAvailableBytes(t) == t.capacity_ - t.used_bytes_

\* StorageTier::AllocateBlock with AllocateMem / AllocateDisk.
TierAllocateBlock(W, ty, id, size, io) ==
  LET t == W.tiers[ty] IN
  IF id \in DOMAIN t.blocks_ THEN [W |-> W, status |-> "AlreadyExists"]
  ELSE IF t.used_bytes_ + size > t.capacity_
  THEN [W |-> W, status |-> "ResourceExhausted"]
  ELSE IF "AllocateBlock" \in io
  THEN [W |-> W,
        status |-> IF ty = kMemory THEN "ResourceExhausted" ELSE "IOError"]
  ELSE [W |-> [W EXCEPT !.tiers[ty].blocks_ = Put(@, id, size),
                        !.tiers[ty].used_bytes_ = @ + size],
        status |-> "OK"]

\* StorageTier::RemoveBlock with RemoveMem / RemoveDisk.
TierRemoveBlock(W, ty, id) ==
  LET t == W.tiers[ty] IN
  IF id \notin DOMAIN t.blocks_ THEN [W |-> W, status |-> "NotFound"]
  ELSE [W |-> [W EXCEPT !.tiers[ty].blocks_ = Erase(@, id),
                        !.tiers[ty].used_bytes_ = @ - t.blocks_[id]],
        status |-> "OK"]

\* StorageTier::ReadBlock with ReadMem / ReadDisk: the status only.
TierReadBlock(W, ty, id, io) ==
  IF id \notin DOMAIN W.tiers[ty].blocks_ THEN "NotFound"
  ELSE IF ty # kMemory /\ "ReadBlock" \in io THEN "IOError"
  ELSE "OK"

\* StorageTier::WriteBlock with WriteMem / WriteDisk at offset 0: the
\* status only.
TierWriteBlock(W, ty, id, size, io) ==
  IF id \notin DOMAIN W.tiers[ty].blocks_ THEN "NotFound"
  ELSE IF ty = kMemory
  THEN IF size > W.tiers[ty].blocks_[id] THEN "InvalidArgument" ELSE "OK"
  ELSE IF "WriteBlock" \in io THEN "IOError" ELSE "OK"

\* StorageTier::ExportBlock: the status and the number of bytes exported.
ExportBlock(W, ty, id, io) ==
  IF id \notin DOMAIN W.tiers[ty].blocks_
  THEN [status |-> "NotFound", size |-> 0]
  ELSE IF ty # kMemory /\ "ExportBlock" \in io
  THEN [status |-> "IOError", size |-> 0]
  ELSE [status |-> "OK", size |-> W.tiers[ty].blocks_[id]]

\* StorageTier::ImportBlock: AllocateBlock, then WriteBlock of the data.
ImportBlock(W, ty, id, size, io) ==
  LET A == TierAllocateBlock(W, ty, id, size, io) IN
  IF A.status # "OK" THEN A
  ELSE [W |-> A.W, status |-> TierWriteBlock(A.W, ty, id, size, io)]

\* ------------------------------------------------------------------------
\* Worker: eviction policies
\* ------------------------------------------------------------------------
\* std::list::remove: every element equal to id goes.
ListRemove(lst, id) == SelectSeq(lst, LAMBDA x : x # id)

NewPolicy(type) ==
  [type |-> type, order_ |-> <<>>, freq_map_ |-> EmptyFn,
   freq_lists_ |-> EmptyFn, min_freq_ |-> 0]

\* An OnAccess that leaves the accessed block where it is in the list.
LRUOnAccessInPlace(pol, id) == pol

\* LRUPolicy::map_ indexes order_: its keys are the ids in the list.
LRUOnAccess(pol, id) ==
  IF \E i \in 1..Len(pol.order_) : pol.order_[i] = id
  THEN [pol EXCEPT !.order_ = Append(ListRemove(@, id), id)]
  ELSE pol

LRUOnInsert(pol, id) == [pol EXCEPT !.order_ = Append(ListRemove(@, id), id)]

LRUOnRemove(pol, id) == [pol EXCEPT !.order_ = ListRemove(@, id)]

\* An Evict that takes the back of the list.
LRUEvictBack(pol) ==
  IF pol.order_ = <<>> THEN [pol |-> pol, victim |-> kInvalidBlockId]
  ELSE [pol |-> [pol EXCEPT !.order_ = SubSeq(@, 1, Len(@) - 1)],
        victim |-> pol.order_[Len(pol.order_)]]

LRUEvict(pol) ==
  IF pol.order_ = <<>> THEN [pol |-> pol, victim |-> kInvalidBlockId]
  ELSE [pol |-> [pol EXCEPT !.order_ = Tail(@)], victim |-> Head(pol.order_)]

LFUOnAccess(pol, id) ==
  IF id \notin DOMAIN pol.freq_map_ THEN pol
  ELSE LET old_freq == pol.freq_map_[id]
           new_freq == old_freq + 1
           old_list == ListRemove(pol.freq_lists_[old_freq], id)
           lists1 == IF old_list = <<>> THEN Erase(pol.freq_lists_, old_freq)
                     ELSE Put(pol.freq_lists_, old_freq, old_list)
           min1 == IF old_list = <<>> /\ pol.min_freq_ = old_freq
                   THEN new_freq ELSE pol.min_freq_
           new_list == IF new_freq \in DOMAIN lists1 THEN lists1[new_freq]
                       ELSE <<>>
       IN [pol EXCEPT !.freq_map_ = Put(@, id, new_freq),
                      !.freq_lists_ = Put(lists1, new_freq, Append(new_list, id)),
                      !.min_freq_ = min1]

\* An OnInsert that lowers min_freq_ only when nothing was tracked.
LFUOnInsertKeepMin(pol, id) ==
  IF id \in DOMAIN pol.freq_map_ THEN LFUOnAccess(pol, id)
  ELSE LET lst == IF 1 \in DOMAIN pol.freq_lists_ THEN pol.freq_lists_[1]
                  ELSE <<>>
       IN [pol EXCEPT !.freq_map_ = Put(@, id, 1),
                      !.freq_lists_ = Put(@, 1, Append(lst, id)),
                      !.min_freq_ = IF DOMAIN pol.freq_map_ = {} THEN 1 ELSE @]

LFUOnInsert(pol, id) ==
  IF id \in DOMAIN pol.freq_map_ THEN LFUOnAccess(pol, id)
  ELSE LET lst == IF 1 \in DOMAIN pol.freq_lists_ THEN pol.freq_lists_[1]
                  ELSE <<>>
       IN [pol EXCEPT !.freq_map_ = Put(@, id, 1),
                      !.freq_lists_ = Put(@, 1, Append(lst, id)),
                      !.min_freq_ = 1]

LFUOnRemove(pol, id) ==
  IF id \notin DOMAIN pol.freq_map_ THEN pol
  ELSE LET freq == pol.freq_map_[id]
           lst == ListRemove(pol.freq_lists_[freq], id)
       IN [pol EXCEPT !.freq_lists_ = IF lst = <<>> THEN Erase(@, freq)
                                      ELSE Put(@, freq, lst),
                      !.freq_map_ = Erase(@, id)]

\* LFUPolicy::Evict.  The while loop raises min_freq_ to the next frequency
\* that has a list; every list in freq_lists_ is non-empty.
LFUEvict(pol) ==
  IF DOMAIN pol.freq_map_ = {} THEN [pol |-> pol, victim |-> kInvalidBlockId]
  ELSE LET m == CHOOSE f \in DOMAIN pol.freq_lists_ :
                  /\ f >= pol.min_freq_
                  /\ \A g \in DOMAIN pol.freq_lists_ : g >= pol.min_freq_ => f <= g
           lst == pol.freq_lists_[m]
       IN [pol |-> [pol EXCEPT !.min_freq_ = m,
                               !.freq_lists_ = IF Tail(lst) = <<>>
                                               THEN Erase(@, m)
                                               ELSE Put(@, m, Tail(lst)),
                               !.freq_map_ = Erase(@, Head(lst))],
           victim |-> Head(lst)]

OnAccess(pol, id) ==
  IF pol.type = "LRU" THEN LRUOnAccess(pol, id) ELSE LFUOnAccess(pol, id)
OnInsert(pol, id) ==
  IF pol.type = "LRU" THEN LRUOnInsert(pol, id) ELSE LFUOnInsert(pol, id)
OnRemove(pol, id) ==
  IF pol.type = "LRU" THEN LRUOnRemove(pol, id) ELSE LFUOnRemove(pol, id)
Evict(pol) == IF pol.type = "LRU" THEN LRUEvict(pol) ELSE LFUEvict(pol)
Size(pol) ==
  IF pol.type = "LRU" THEN Len(pol.order_)
  ELSE Cardinality(DOMAIN pol.freq_map_)

\* ------------------------------------------------------------------------
\* Worker: CacheManager
\* ------------------------------------------------------------------------
OnBlockAccess(W, id) == [W EXCEPT !.pol = OnAccess(@, id)]

OnBlockInsert(W, id, size) ==
  [W EXCEPT !.pol = OnInsert(@, id),
            !.sizes = Put(@, id, size),
            !.total = @ + size]

OnBlockRemove(W, id) ==
  [W EXCEPT !.pol = OnRemove(@, id),
            !.sizes = Erase(@, id),
            !.total = IF id \in DOMAIN W.sizes THEN @ - W.sizes[id] ELSE @]

\* The while loop of CacheManager::GetEvictionCandidates.
RECURSIVE CandidatesLoop(_, _, _, _)
CandidatesLoop(W, bytes_needed, freed, victims) ==
  IF ~(freed < bytes_needed /\ Size(W.pol) > 0)
  THEN [W |-> W, victims |-> victims]
  ELSE LET E == Evict(W.pol)
           v == E.victim
           known == v \in DOMAIN W.sizes
           W1 == [W EXCEPT !.pol = E.pol,
                           !.sizes = Erase(@, v),
                           !.total = IF known THEN @ - W.sizes[v] ELSE @]
       IN IF v = kInvalidBlockId THEN [W |-> W, victims |-> victims]
          ELSE CandidatesLoop(W1, bytes_needed,
                              IF known THEN freed + W.sizes[v] ELSE freed,
                              Append(victims, v))

GetEvictionCandidates(W, bytes_needed) ==
  CandidatesLoop(W, bytes_needed, 0, <<>>)

\* ------------------------------------------------------------------------
\* Worker: MetaStore
\* ------------------------------------------------------------------------
\* PutBlockMeta / DeleteBlockMeta: a failing call leaves the store as it was.
PutBlockMeta(W, id, meta, io) ==
  IF "PutBlockMeta" \in io THEN W ELSE [W EXCEPT !.meta = Put(@, id, meta)]

DeleteBlockMeta(W, id, io) ==
  IF "DeleteBlockMeta" \in io THEN W ELSE [W EXCEPT !.meta = Erase(@, id)]

GetBlockMetaOk(W, id, io) == "GetBlockMeta" \notin io /\ id \in DOMAIN W.meta

\* ------------------------------------------------------------------------
\* Worker: BlockStore
\* ------------------------------------------------------------------------
NoTier == -1

FindTier(W, type) == IF type \in DOMAIN W.tiers THEN type ELSE NoTier

FindBlockTier(W, id) ==
  IF id \in DOMAIN W.map THEN FindTier(W, W.map[id]) ELSE NoTier

HasBlock(W, id) == id \in DOMAIN W.map

\* tiers_ is sorted by type: its front is the smallest configured type.
Front(W) == CHOOSE ty \in DOMAIN W.tiers : \A u \in DOMAIN W.tiers : ty <= u

\* The candidate loop of BlockStore::EvictBlocks.
RECURSIVE EvictLoop(_, _, _, _, _)
EvictLoop(W, tier, candidates, evicted, io) ==
  IF candidates = <<>> THEN [W |-> W, status |-> "OK", evicted |-> evicted]
  ELSE LET bid == Head(candidates)
           t == FindBlockTier(W, bid)
       IN IF t # NoTier /\ t = tier
          THEN LET W1 == TierRemoveBlock(W, t, bid).W
                   W2 == DeleteBlockMeta(W1, bid, io)
                   W3 == [W2 EXCEPT !.map = Erase(@, bid)]
               IN EvictLoop(W3, tier, Tail(candidates), Append(evicted, bid), io)
          ELSE EvictLoop(W, tier, Tail(candidates), evicted, io)

EvictBlocks(W, tier, bytes_needed, io) ==
  LET G == GetEvictionCandidates(W, bytes_needed)
  IN EvictLoop(G.W, tier, G.victims, <<>>, io)

MaybeAutoEvict(W, tier, io) ==
  IF FindTier(W, tier) = NoTier THEN W
  ELSE LET t == W.tiers[tier]
           target_used == (t.capacity_ * auto_evict_low_watermark) \div 100
           to_free == IF t.used_bytes_ > target_used
                      THEN t.used_bytes_ - target_used ELSE 0
       IN IF t.capacity_ = 0 THEN W
          ELSE IF t.used_bytes_ * 100 <= auto_evict_high_watermark * t.capacity_
          THEN W
          ELSE IF to_free = 0 THEN W
          ELSE EvictBlocks(W, tier, to_free, io).W

\* BlockStore::CreateBlock.  `tier` and `avail` report the tier that
\* admitted the block and the bytes it had available at that moment.
CreateBlock(W, block_id, size, io) ==
  LET fits == {ty \in DOMAIN W.tiers : GetAvailableBytes(W.tiers[ty]) >= size}
      W0 == IF fits # {} THEN W
            ELSE EvictBlocks(W, Front(W), size, io).W
      target == IF fits # {} THEN CHOOSE ty \in fits : \A u \in fits : ty <= u
                ELSE Front(W)
      avail == GetAvailableBytes(W0.tiers[target])
      Out(W9, st) == [W |-> W9, status |-> st, tier |-> target, avail |-> avail]
      A == TierAllocateBlock(W0, target, block_id, size, io)
      meta == [length |-> size, tier |-> target, access_count |-> 0]
      W1 == PutBlockMeta(A.W, block_id, meta, io)
      W2 == [W1 EXCEPT !.map = Put(@, block_id, target)]
      W3 == OnBlockInsert(W2, block_id, size)
  IN IF avail < size THEN Out(W0, "ResourceExhausted")
     ELSE IF A.status # "OK" THEN Out(A.W, A.status)
     ELSE IF "PutBlockMeta" \in io THEN Out(A.W, "IOError")
     ELSE Out(MaybeAutoEvict(W3, target, io), "OK")

EnsureBlock(W, block_id, size, io) ==
  IF HasBlock(W, block_id)
  THEN [W |-> W, status |-> "OK", tier |-> NoTier, avail |-> 0]
  ELSE CreateBlock(W, block_id, size, io)

\* PromoteBlock that takes the block out of the source tier before it
\* imports it into the destination.
PromoteBlockRemoveFirst(W, id, target_type, io) ==
  LET src == FindBlockTier(W, id)
      dst == FindTier(W, target_type)
      X == ExportBlock(W, src, id, io)
      W0 == TierRemoveBlock(W, src, id).W
      I == ImportBlock(W0, dst, id, X.size, io)
      W2 == IF GetBlockMetaOk(I.W, id, io)
            THEN PutBlockMeta(I.W, id, [I.W.meta[id] EXCEPT !.tier = target_type],
                              io)
            ELSE I.W
      W3 == [W2 EXCEPT !.map = Put(@, id, target_type)]
  IN IF src = NoTier THEN [W |-> W, status |-> "NotFound"]
     ELSE IF src = target_type THEN [W |-> W, status |-> "OK"]
     ELSE IF dst = NoTier THEN [W |-> W, status |-> "NotFound"]
     ELSE IF X.status # "OK" THEN [W |-> W, status |-> X.status]
     ELSE IF I.status # "OK" THEN [W |-> I.W, status |-> I.status]
     ELSE [W |-> W3, status |-> "OK"]

\* BlockStore::PromoteBlock.
PromoteBlock(W, id, target_type, io) ==
  LET src == FindBlockTier(W, id)
      dst == FindTier(W, target_type)
      X == ExportBlock(W, src, id, io)
      I == ImportBlock(W, dst, id, X.size, io)
      W1 == TierRemoveBlock(I.W, src, id).W
      W2 == IF GetBlockMetaOk(W1, id, io)
            THEN PutBlockMeta(W1, id, [W1.meta[id] EXCEPT !.tier = target_type],
                              io)
            ELSE W1
      W3 == [W2 EXCEPT !.map = Put(@, id, target_type)]
  IN IF src = NoTier THEN [W |-> W, status |-> "NotFound"]
     ELSE IF src = target_type THEN [W |-> W, status |-> "OK"]
     ELSE IF dst = NoTier THEN [W |-> W, status |-> "NotFound"]
     ELSE IF X.status # "OK" THEN [W |-> W, status |-> X.status]
     ELSE IF I.status # "OK" THEN [W |-> I.W, status |-> I.status]
     ELSE [W |-> W3, status |-> "OK"]

\* MaybeAutoPromote with a target that wraps around: a block of the fastest
\* tier goes to the next slower one.
MaybeAutoPromoteWrapping(W, id, meta, io) ==
  IF auto_promote_access_threshold = 0 THEN W
  ELSE IF meta.access_count < auto_promote_access_threshold THEN W
  ELSE IF id \notin DOMAIN W.map THEN W
  ELSE LET current_tier == W.map[id]
           target == IF current_tier = kHDD THEN kSSD
                     ELSE IF current_tier = kSSD THEN kMemory
                     ELSE kSSD
           dst == FindTier(W, target)
       IN IF dst = NoTier THEN W
          ELSE IF GetAvailableBytes(W.tiers[dst]) < meta.length THEN W
          ELSE PromoteBlock(W, id, target, io).W

\* BlockStore::MaybeAutoPromote, called with ReadBlock's copy of the meta.
MaybeAutoPromote(W, id, meta, io) ==
  IF auto_promote_access_threshold = 0 THEN W
  ELSE IF meta.access_count < auto_promote_access_threshold THEN W
  ELSE IF id \notin DOMAIN W.map THEN W
  ELSE LET current_tier == W.map[id]
           target == IF current_tier = kHDD THEN kSSD
                     ELSE IF current_tier = kSSD THEN kMemory
                     ELSE current_tier
           dst == FindTier(W, target)
       IN IF current_tier \notin {kHDD, kSSD} THEN W
          ELSE IF dst = NoTier THEN W
          ELSE IF GetAvailableBytes(W.tiers[dst]) < meta.length THEN W
          ELSE PromoteBlock(W, id, target, io).W

\* BlockStore::ReadBlock.
ReadBlock(W, id, io) ==
  LET tier == FindBlockTier(W, id)
      s == TierReadBlock(W, tier, id, io)
      W1 == OnBlockAccess(W, id)
      meta == [W1.meta[id] EXCEPT !.access_count = @ + 1]
      W2 == PutBlockMeta(W1, id, meta, io)
  IN IF tier = NoTier THEN [W |-> W, status |-> "NotFound"]
     ELSE IF s # "OK" THEN [W |-> W, status |-> s]
     ELSE IF ~GetBlockMetaOk(W1, id, io) THEN [W |-> W1, status |-> "OK"]
     ELSE [W |-> MaybeAutoPromote(W2, id, meta, io), status |-> "OK"]

\* BlockStore::WriteBlock at offset 0.
WriteBlock(W, id, size, io) ==
  LET tier == FindBlockTier(W, id)
      s == TierWriteBlock(W, tier, id, size, io)
  IN IF tier = NoTier THEN [W |-> W, status |-> "NotFound"]
     ELSE IF s # "OK" THEN [W |-> W, status |-> s]
     ELSE [W |-> OnBlockAccess(W, id), status |-> "OK"]

\* BlockStore::RemoveBlock.
RemoveBlock(W, id, io) ==
  LET tier == FindBlockTier(W, id)
      W1 == IF tier # NoTier THEN TierRemoveBlock(W, tier, id).W ELSE W
      W2 == OnBlockRemove(W1, id)
      W3 == DeleteBlockMeta(W2, id, io)
  IN [W |-> [W3 EXCEPT !.map = Erase(@, id)], status |-> "OK"]

\* ------------------------------------------------------------------------
\* State
\* ------------------------------------------------------------------------
VARIABLES
  \* master
  up,            \* FileSystemMaster::Init has succeeded and the process runs
  dir_inodes_,   \* InodeTree::dir_inodes_
  next_id_,      \* InodeTree::next_id_
  alloc_end_,    \* InodeTree::alloc_end_
  db,            \* the RocksDB instance behind InodeStore
  lastOp,        \* the latest handler call: kind, status, id returned, and
                 \* the batches it committed
  issued_before, \* the largest id returned by a create before the latest call
  ops,           \* how many handler calls have taken effect so far
  \* worker
  tiers_,              \* BlockStore::tiers_, by tier type
  meta_store_,         \* the MetaStore's records
  block_tier_map_,     \* BlockStore::block_tier_map_
  policy_,             \* CacheManager::policy_
  block_sizes_,        \* CacheManager::block_sizes_
  total_cached_bytes_, \* CacheManager::total_cached_bytes_
  lastW,               \* the latest block engine call, what it was given
                       \* and what it returned
  wops,                \* how many block engine calls have taken effect
  promotions,          \* per block: the promotions since it was created or
                       \* last placed on a slower tier by promote_block
  \* data mover
  tasks_,           \* DataMover::tasks_, the queued task ids
  running_,         \* DataMover::running_
  active_tasks_,    \* DataMover::active_tasks_
  mu_,              \* the holder of DataMover::mu_, or Nobody
  pc,               \* per worker thread: where it is in WorkerLoop
  task,             \* per worker thread: the task it popped
  wait_pc,          \* where the caller of WaitAll is
  stop_pc,          \* where the caller of Stop is
  submitted,        \* how many tasks have been submitted
  pending_at_stop,  \* the tasks that were queued when Stop cleared running_
  begun_after_stop, \* the tasks popped for execution after that
  \* master coordinator and the worker processes that talk to it
  workers_,          \* WorkerManager::workers_
  worker_next_id_,   \* WorkerManager::next_id_
  block_locations_,  \* BlockMaster::block_locations_
  worker_blocks_,    \* BlockMaster::worker_blocks_
  now,               \* the clock read by WorkerManager::NowMs
  worker_id_,        \* per worker address: WorkerServer::worker_id_
  held,              \* per worker address: the blocks its block store holds
  started,           \* the worker addresses whose WorkerServer is running
  lastC,             \* the latest coordinator call and what it returned
  cops,              \* how many coordinator calls have been made
  \* the threads that call the block store at the same time
  block_bytes,  \* per tier that stores the block: the bytes in its handle
  tpc,          \* per client thread: where it is in its call
  src_tier,     \* per client thread: the tier FindBlockTier gave it
  dst_type,     \* per client thread: the target tier of its PromoteBlock
  exported,     \* per client thread: the bytes ExportBlock gave it
  n_writes,     \* how many WriteBlock calls have been made
  completed,    \* the bytes of the latest WriteBlock that returned OK
  n_reads,      \* how many ReadBlock calls have been made
  n_promotes,   \* how many PromoteBlock calls the promoting thread has made
  lastRead,     \* the latest ReadBlock: status, the bytes it returned, and
                \* the write that had completed when it started
  \* the cache manager called on its own
  uses,         \* per block the manager was told of and has not given up:
                \* when it was last inserted or accessed, and how often
  \* the inode store called on its own, with owners and groups
  dict_,        \* InodeStore::dict_: owners_, groups_ and dirty_
  cf_inodes_,   \* the inodes column family: the owner and group ids of
                \* each inode record, and the two dictionary records
  given,        \* per committed inode record: the owner and group strings
                \* of the inode it was serialized from
  sops,         \* how many calls have been made on the store
  \* the mutexes of the block engine
  lk_path,      \* per calling thread: the lock and unlock calls still
                \* ahead of it in the engine call it is in
  lk_held,      \* per calling thread: the mutexes it holds
  lk_last,      \* per calling thread: its latest lock call, as the mutex
                \* and the mutexes the thread held when it made the call
  \* the worker process: WorkerServer, its RPC service and its DataMover
  srv_running,  \* WorkerServer::running_
  srv_pc,       \* where the caller of WorkerServer::Start and Stop is
  grpc_serving, \* grpc_server_ exists and has not been shut down
  hb_pc,        \* where the heartbeat thread is in HeartbeatLoop
  mover,        \* data_mover_: running_, tasks_, ufs_ and, per thread,
                \* whether it is still in WorkerLoop
  n_tasks,      \* how many tasks the RPC handlers have submitted
  acked,        \* the tasks whose AsyncCacheBlock or PersistBlock call
                \* answered OK
  executed,     \* per task that ExecuteTask has run: the status it returned
  halted,       \* the parts Stop has halted and joined, in that order
  \* the thread that removes the block while the others call the store
  n_removes,    \* how many RemoveBlock calls have been made
  held_meta,    \* the reading thread's local `meta` between GetBlockMeta
                \* and PutBlockMeta
  \* the heartbeat checker of the master
  dead_         \* HeartbeatCheckLoop's local `dead`: the workers that
                \* CheckHeartbeats returned and whose blocks are not yet
                \* removed

mvars == <<up, dir_inodes_, next_id_, alloc_end_, db, lastOp, issued_before,
           ops>>
wvars == <<tiers_, meta_store_, block_tier_map_, policy_, block_sizes_,
           total_cached_bytes_, lastW, wops, promotions>>
dvars == <<tasks_, running_, active_tasks_, mu_, pc, task, wait_pc, stop_pc,
           submitted, pending_at_stop, begun_after_stop>>
cvars == <<workers_, worker_next_id_, block_locations_, worker_blocks_, now,
           worker_id_, held, started, lastC, cops>>
xvars == <<block_bytes, tpc, src_tier, dst_type, exported, n_writes,
           completed, n_reads, n_promotes, lastRead>>
kvars == <<uses>>
svars == <<dict_, cf_inodes_, given, sops>>
lvars == <<lk_path, lk_held, lk_last>>
pvars == <<srv_running, srv_pc, grpc_serving, hb_pc, mover, n_tasks, acked,
           executed, halted>>
hvars == <<dead_>>
rvars == <<n_removes, held_meta>>
vars == <<mvars, wvars, dvars, kvars, svars, lvars, pvars, hvars, rvars, cvars,
          xvars>>
notMaster == <<wvars, dvars, kvars, svars, lvars, pvars, hvars, rvars, cvars, xvars>>
notWorker == <<mvars, dvars, kvars, svars, lvars, pvars, hvars, rvars, cvars, xvars>>
notMover == <<mvars, wvars, kvars, svars, lvars, pvars, hvars, rvars, cvars, xvars>>

\* ------------------------------------------------------------------------
\* Worker: construction
\* ------------------------------------------------------------------------
\* StorageTier::StorageTier: an empty tier of the configured capacity.
NewTier == [capacity_ |-> Capacity, used_bytes_ |-> 0, blocks_ |-> EmptyFn]

NoCall ==
  [kind |-> "None", status |-> "OK", id |-> 0, size |-> 0, tier |-> NoTier,
   avail |-> 0, evicted |-> <<>>, faulty |-> FALSE]

\* The threads that call into the block store; none is in a call.
Clients == {"writer", "reader", "promoter", "remover"}
NoRead == [status |-> "None", value |-> 0, floor |-> 0]
NoMeta == [length |-> 0, tier |-> NoTier, access_count |-> 0]
NoClients ==
  /\ block_bytes = EmptyFn
  /\ tpc = [t \in Clients |-> "idle"]
  /\ src_tier = [t \in Clients |-> NoTier]
  /\ dst_type = [t \in Clients |-> NoTier]
  /\ exported = [t \in Clients |-> 0]
  /\ n_writes = 0
  /\ completed = 0
  /\ n_reads = 0
  /\ n_promotes = 0
  /\ lastRead = NoRead
  /\ n_removes = 0
  /\ held_meta = NoMeta

\* No thread is inside an engine call or holds a mutex.
Callers == {"c1", "c2"}
NoLock == <<"none", 0>>
NoCallers ==
  /\ lk_path = [t \in Callers |-> <<>>]
  /\ lk_held = [t \in Callers |-> {}]
  /\ lk_last = [t \in Callers |-> [lock |-> NoLock, held |-> {}]]

\* BlockStore::BlockStore over Options{tiers, cache_policy}: one tier per
\* configured type, an empty policy and an empty MetaStore.
NewBlockStore(types, cache_policy) ==
  /\ NoClients
  /\ tiers_ = [ty \in types |-> NewTier]
  /\ meta_store_ = EmptyFn
  /\ block_tier_map_ = EmptyFn
  /\ policy_ = NewPolicy(cache_policy)
  /\ block_sizes_ = EmptyFn
  /\ total_cached_bytes_ = 0
  /\ lastW = NoCall
  /\ wops = 0
  /\ promotions = [id \in 1..MaxBlocks |-> 0]
  /\ uses = EmptyFn
  /\ NoCallers

\* DataMover::DataMover(block_store, num_threads): num_threads threads
\* entering WorkerLoop, an empty queue, running_ set.
Nobody == 0
NoTask == 0
Threads == 1..NumThreads
WaitAllCaller == NumThreads + 1
NewDataMover ==
  /\ tasks_ = <<>>
  /\ running_ = TRUE
  /\ active_tasks_ = 0
  /\ mu_ = Nobody
  /\ pc = [t \in Threads |-> "while"]
  /\ task = [t \in Threads |-> NoTask]
  /\ wait_pc = "idle"
  /\ stop_pc = "idle"
  /\ submitted = 0
  /\ pending_at_stop = {}
  /\ begun_after_stop = {}

\* FileSystemMaster::FileSystemMaster: an empty WorkerManager and an empty
\* BlockMaster; no worker process has registered.
kInvalidWorkerId == 0
Addresses == {"w1", "w2"}
NoCCall == [kind |-> "None", status |-> "OK", worker |-> kInvalidWorkerId,
            address |-> "", dead |-> {}, inode |-> 0, removed |-> {},
            new_count |-> 0]
NewCoordinator ==
  /\ workers_ = EmptyFn
  /\ worker_next_id_ = 1
  /\ block_locations_ = EmptyFn
  /\ worker_blocks_ = EmptyFn
  /\ now = 0
  /\ worker_id_ = [a \in Addresses |-> kInvalidWorkerId]
  /\ held = [a \in Addresses |-> {}]
  /\ started = {}
  /\ lastC = NoCCall
  /\ cops = 0

\* ------------------------------------------------------------------------
\* Master: inputs and actions
\* ------------------------------------------------------------------------
Paths == UNION {[1..n -> Names] : n \in 0..MaxDepth}
Modes == {384}
Sizes == 1..MaxSize
InodeIds == 1..MaxId
\* The CommitBatch calls of one handler on which the store reports an error:
\* none, one, or two in a row, among the first n.
FailSets(n) == {{}} \cup {{i} : i \in 1..n} \cup {{i, i + 1} : i \in 1..(n - 1)}

Tree == [dir |-> dir_inodes_, next_id |-> next_id_, alloc_end |-> alloc_end_,
         db |-> db, k |-> 0, ok |-> TRUE, ret |-> 0, log |-> <<>>]

\* The effect of a handler that returned R on the master's variables.
\* lastOp and issued_before follow the calls that reached CommitBatch,
\* changed the tree or returned OK; a call rejected before any of that
\* leaves every variable as it was.
Rejected(R) ==
  /\ R.status \notin {"OK", "IOError", "Crash"}
  /\ R.T.dir = dir_inodes_
  /\ R.T.db = db
  /\ R.T.next_id = next_id_

Returns(kind, R, new_id) ==
  /\ UNCHANGED notMaster
  /\ R.T.next_id <= MaxId + 1
  /\ kind # "Recover" => ops < MaxOps
  /\ ops' = IF Rejected(R) \/ kind = "Recover" THEN ops ELSE ops + 1
  /\ dir_inodes_' = R.T.dir
  /\ next_id_' = R.T.next_id
  /\ alloc_end_' = R.T.alloc_end
  /\ db' = R.T.db
  /\ IF Rejected(R)
     THEN UNCHANGED <<lastOp, issued_before>>
     ELSE /\ lastOp' = [kind |-> kind, status |-> R.status, new_id |-> new_id,
                        log |-> R.T.log]
          /\ issued_before' = IF lastOp.new_id > issued_before
                              THEN lastOp.new_id ELSE issued_before

\* InodeTree::InodeTree: the tree of a fresh process, before SetStore.
\* WorkerServer::WorkerServer: a block store and a page store; no gRPC
\* server, no DataMover and no heartbeat thread before Start.
NoMover ==
  [exists |-> FALSE, running_ |-> FALSE, tasks_ |-> <<>>, ufs_ |-> FALSE,
   threads_ |-> [t \in Threads |-> "none"]]
NewWorkerServer ==
  /\ srv_running = FALSE
  /\ srv_pc = "constructed"
  /\ grpc_serving = FALSE
  /\ hb_pc = "none"
  /\ mover = NoMover
  /\ n_tasks = 0
  /\ acked = {}
  /\ executed = EmptyFn
  /\ halted = <<>>

\* MasterServer::Start: the heartbeat checker has returned no worker yet.
NewChecker == dead_ = <<>>

\* InodeStore::Open on an empty database: no inode record, no dictionary
\* record, an empty dictionary.
EmptyDict == [owners_ |-> <<>>, groups_ |-> <<>>, dirty_ |-> FALSE]
EmptyInodes == [inodes |-> EmptyFn, owners |-> <<>>, groups |-> <<>>]
NewInodeStore ==
  /\ dict_ = EmptyDict
  /\ cf_inodes_ = EmptyInodes
  /\ given = EmptyFn
  /\ sops = 0

NewDir == (root_id_ :> RootInode)
NewTree == [dir |-> NewDir, next_id |-> 2, alloc_end |-> 2,
            db |-> db, k |-> 0, ok |-> TRUE, ret |-> 0, log |-> <<>>]

\* The master before its first start.
NewMaster ==
  /\ up = FALSE
  /\ dir_inodes_ = NewDir
  /\ next_id_ = 2
  /\ alloc_end_ = 2
  /\ db = EmptyDb
  /\ lastOp = [kind |-> "None", status |-> "OK", new_id |-> 0, log |-> <<>>]
  /\ issued_before = 0
  /\ ops = 0

MInit ==
  NewMaster /\ NewBlockStore({kMemory}, "LRU") /\ NewDataMover /\ NewCoordinator /\ NewInodeStore /\ NewWorkerServer /\ NewChecker

\* The number of CommitBatch calls a handler makes when none of them fails;
\* with failures it makes no more, so FailSets of this number covers every
\* way its commits can fail.
Commits(R) == R.T.k

\* FileSystemMaster::Init in a new process (first start, or after the
\* previous process stopped or crashed between two handlers): a fresh
\* InodeTree, SetStore, Recover.
Start ==
  \E fails \in FailSets(Commits(Recover(NewTree, {}))) :
    LET R == Recover(NewTree, fails) IN
    /\ Returns("Recover", R, 0)
    /\ up' = (R.status = "OK")

DoCreateFile ==
  /\ up
  /\ \E parts \in Paths, mode \in Modes :
       \E fails \in FailSets(Commits(CreateFile(Tree, parts, mode, {}))) :
         LET R == CreateFile(Tree, parts, mode, fails) IN
         Returns("CreateFile", R, IF R.status = "OK" THEN R.out ELSE 0)
  /\ UNCHANGED up

DoCreateDirectory ==
  /\ up
  /\ \E parts \in Paths, mode \in Modes, recursive \in BOOLEAN :
       \E fails \in
            FailSets(Commits(CreateDirectory(Tree, parts, mode, recursive, {}))) :
         LET R == CreateDirectory(Tree, parts, mode, recursive, fails) IN
         Returns("CreateDirectory", R,
                 IF R.status = "OK" /\ parts # <<>> THEN R.out ELSE 0)
  /\ UNCHANGED up

DoCompleteFile ==
  /\ up
  /\ \E id \in InodeIds, size \in Sizes :
       \E fails \in FailSets(Commits(CompleteFile(Tree, id, size, {}))) :
         Returns("CompleteFile", CompleteFile(Tree, id, size, fails), 0)
  /\ UNCHANGED up

DoUpdateSize ==
  /\ up
  /\ \E id \in InodeIds, size \in Sizes :
       \E fails \in FailSets(Commits(UpdateSize(Tree, id, size, {}))) :
         Returns("UpdateSize", UpdateSize(Tree, id, size, fails), 0)
  /\ UNCHANGED up

\* A Delete whose subtree walk does not end overflows the stack: the
\* process dies before anything is committed.
DoDelete ==
  /\ up
  /\ \E parts \in Paths, recursive \in BOOLEAN :
       \E fails \in FailSets(Commits(Delete(Tree, parts, recursive, {}))) :
         LET R == Delete(Tree, parts, recursive, fails) IN
         /\ Returns("Delete", R, 0)
         /\ up' = (R.status # "Crash")

DoRename ==
  /\ up
  /\ \E src \in Paths, dst \in Paths :
       \E fails \in FailSets(Commits(Rename(Tree, src, dst, {}))) :
         Returns("Rename", Rename(Tree, src, dst, fails), 0)
  /\ UNCHANGED up

MNext ==
  \/ Start
  \/ DoCreateFile
  \/ DoCreateDirectory
  \/ DoCompleteFile
  \/ DoUpdateSize
  \/ DoDelete
  \/ DoRename

SpecMaster == MInit /\ [][MNext]_vars

\* ------------------------------------------------------------------------
\* Worker: inputs and actions
\* ------------------------------------------------------------------------
TierTypes == {kMemory, kSSD, kHDD}
PolicyTypes == {"LRU", "LFU"}
BlockIds == 1..MaxBlocks
BlockSizes == 1..Capacity
\* The calls that fail during one handler: none, or one kind of call.
IoSets(names) == {{}} \cup {{n} : n \in names}

Engine == [tiers |-> tiers_, meta |-> meta_store_, map |-> block_tier_map_,
           pol |-> policy_, sizes |-> block_sizes_,
           total |-> total_cached_bytes_]

\* The promotions of block id after a call that took the block-to-tier
\* map from `old` to `new`: a move made by a read is a promotion, so is a
\* promote_block to a faster tier; the count restarts when the block is
\* created, removed, evicted or placed on a slower tier by promote_block.
Promotions(old, new, kind, id, n) ==
  IF id \notin DOMAIN new \/ id \notin DOMAIN old THEN 0
  ELSE IF new[id] = old[id] THEN n
  ELSE IF kind = "ReadBlock" THEN n + 1
  ELSE IF kind = "PromoteBlock" /\ new[id] < old[id] THEN n + 1
  ELSE 0

\* The effect of a block engine call that returned R.  A call that failed
\* without changing anything leaves every variable as it was.
WReturns(R, call) ==
  /\ UNCHANGED notWorker
  /\ tiers_' = R.W.tiers
  /\ meta_store_' = R.W.meta
  /\ block_tier_map_' = R.W.map
  /\ policy_' = R.W.pol
  /\ block_sizes_' = R.W.sizes
  /\ total_cached_bytes_' = R.W.total
  /\ promotions' = [id \in DOMAIN promotions |->
                      Promotions(block_tier_map_, R.W.map, call.kind, id,
                                 promotions[id])]
  /\ IF R.status # "OK" /\ R.W = Engine
     THEN UNCHANGED <<lastW, wops>>
     ELSE /\ lastW' = [call EXCEPT !.status = R.status]
          /\ wops' = wops + 1

\* The worker process starts with some configuration of tiers and policy.
WInit ==
  /\ NewMaster
  /\ NewDataMover
  /\ NewCoordinator /\ NewInodeStore /\ NewWorkerServer /\ NewChecker
  /\ \E types \in (SUBSET TierTypes) \ {{}}, cache_policy \in PolicyTypes :
       NewBlockStore(types, cache_policy)

DoCreateBlock ==
  /\ wops < MaxWOps
  /\ \E id \in BlockIds, size \in BlockSizes,
        io \in IoSets({"AllocateBlock", "PutBlockMeta", "DeleteBlockMeta"}) :
       LET R == CreateBlock(Engine, id, size, io) IN
       WReturns(R, [NoCall EXCEPT !.kind = "CreateBlock", !.id = id,
                                  !.size = size, !.faulty = (io # {}), !.tier = R.tier,
                                  !.avail = R.avail])

DoReadBlock ==
  /\ wops < MaxWOps
  /\ \E id \in BlockIds,
        io \in IoSets({"ReadBlock", "GetBlockMeta", "PutBlockMeta", "ExportBlock",
                       "AllocateBlock", "WriteBlock"}) :
       WReturns(ReadBlock(Engine, id, io),
                [NoCall EXCEPT !.kind = "ReadBlock", !.id = id, !.faulty = (io # {})])

DoWriteBlock ==
  /\ wops < MaxWOps
  /\ \E id \in BlockIds, size \in BlockSizes, io \in IoSets({"WriteBlock"}) :
       WReturns(WriteBlock(Engine, id, size, io),
                [NoCall EXCEPT !.kind = "WriteBlock", !.id = id,
                               !.faulty = (io # {})])

DoRemoveBlock ==
  /\ wops < MaxWOps
  /\ \E id \in BlockIds, io \in IoSets({"DeleteBlockMeta"}) :
       WReturns(RemoveBlock(Engine, id, io),
                [NoCall EXCEPT !.kind = "RemoveBlock", !.id = id, !.faulty = (io # {})])

DoPromoteBlock ==
  /\ wops < MaxWOps
  /\ \E id \in BlockIds, target_type \in TierTypes,
        io \in IoSets({"ExportBlock", "AllocateBlock", "WriteBlock",
                       "GetBlockMeta", "PutBlockMeta"}) :
       WReturns(PromoteBlock(Engine, id, target_type, io),
                [NoCall EXCEPT !.kind = "PromoteBlock", !.id = id,
                               !.tier = target_type, !.faulty = (io # {})])

DoEvictBlocks ==
  /\ wops < MaxWOps
  /\ \E tier \in TierTypes, bytes_needed \in BlockSizes,
        io \in IoSets({"DeleteBlockMeta"}) :
       LET R == EvictBlocks(Engine, tier, bytes_needed, io) IN
       WReturns(R, [NoCall EXCEPT !.kind = "EvictBlocks", !.tier = tier,
                                  !.size = bytes_needed, !.faulty = (io # {}),
                                  !.evicted = R.evicted])

WNext ==
  \/ DoCreateBlock
  \/ DoReadBlock
  \/ DoWriteBlock
  \/ DoRemoveBlock
  \/ DoPromoteBlock
  \/ DoEvictBlocks

SpecWorker == WInit /\ [][WNext]_vars

\* ------------------------------------------------------------------------
\* Master: properties
\* ------------------------------------------------------------------------
\* The step just taken was a handler call that took effect.
Called(kinds) == ops' # ops /\ lastOp'.kind \in kinds

\* C1: every inode id returned by create_file / create_directory, across
\* restarts, is strictly greater than every id returned earlier.
C1_IdsStrictlyIncrease ==
  lastOp.new_id # 0 => lastOp.new_id > issued_before

\* The committed batches that touch the inodes or edges column families
\* (the others only move the allocator cursor).
NamespaceBatches(written) ==
  {i \in 1..Len(written) :
     \E j \in 1..Len(written[i]) : written[i][j].op # "PutNextId"}

\* C2: a write whose durable commit fails returns the failure and leaves
\* the in-memory directory map exactly as it was before the call.  Stated
\* for the calls that committed no inode or edge batch at all, so that the
\* ancestors a recursive create_directory has already committed do not
\* count as a change.
C2_FailedCommitLeavesMemory ==
  [][/\ Called({"CreateFile", "CreateDirectory", "Delete", "Rename",
                "CompleteFile", "UpdateSize"})
     /\ lastOp'.status = "IOError"
     /\ NamespaceBatches(lastOp'.log) = {}
     => dir_inodes_' = dir_inodes_]_vars

\* The operations of the committed batches, in commit order.
RECURSIVE Flatten(_)
Flatten(log) == IF log = <<>> THEN <<>> ELSE Head(log) \o Flatten(Tail(log))

\* d1 is d0 with every operation of `written` applied: a key no operation
\* names is as in d0, any other key is as its latest operation leaves it.
WholeBatches(d0, d1, written) ==
  LET w == Flatten(written)
      OnInode(id) == {i \in 1..Len(w) :
                        w[i].op \in {"PutInode", "DeleteInode"} /\ w[i].id = id}
      OnEdge(key) == {i \in 1..Len(w) :
                        /\ w[i].op \in {"PutEdge", "DeleteEdge"}
                        /\ <<w[i].pid, w[i].name>> = key}
      ids == DOMAIN d0.inodes \cup DOMAIN d1.inodes \cup
             {w[i].id : i \in {j \in 1..Len(w) :
                                 w[j].op \in {"PutInode", "DeleteInode"}}}
      keys == DOMAIN d0.edges \cup DOMAIN d1.edges \cup
              {<<w[i].pid, w[i].name>> :
                 i \in {j \in 1..Len(w) : w[j].op \in {"PutEdge", "DeleteEdge"}}}
  IN /\ \A id \in ids :
          IF OnInode(id) = {}
          THEN /\ (id \in DOMAIN d1.inodes) = (id \in DOMAIN d0.inodes)
               /\ id \in DOMAIN d0.inodes => d1.inodes[id] = d0.inodes[id]
          ELSE LET o == w[Max(OnInode(id))] IN
               IF o.op = "PutInode"
               THEN id \in DOMAIN d1.inodes /\ d1.inodes[id] = o.entry
               ELSE id \notin DOMAIN d1.inodes
     /\ \A key \in keys :
          IF OnEdge(key) = {}
          THEN /\ (key \in DOMAIN d1.edges) = (key \in DOMAIN d0.edges)
               /\ key \in DOMAIN d0.edges => d1.edges[key] = d0.edges[key]
          ELSE LET o == w[Max(OnEdge(key))] IN
               IF o.op = "PutEdge"
               THEN key \in DOMAIN d1.edges /\ d1.edges[key] = o.id
               ELSE key \notin DOMAIN d1.edges

C4_RecoverLoadsExactly ==
  lastOp.kind = "Recover" =>
    /\ DOMAIN dir_inodes_ =
         {id \in DOMAIN db.inodes : db.inodes[id].is_directory}
    /\ \A id \in DOMAIN dir_inodes_ :
         /\ [dir_inodes_[id] EXCEPT !.children = EmptyFn]
              = DeserializeInodeEntry(id, db.inodes[id])
         /\ \A n \in DOMAIN dir_inodes_[id].children :
              /\ <<id, n>> \in DOMAIN db.edges
              /\ db.edges[<<id, n>>] = dir_inodes_[id].children[n]
    /\ \A key \in DOMAIN db.edges :
         /\ key[1] \in DOMAIN dir_inodes_
         /\ key[2] \in DOMAIN dir_inodes_[key[1]].children

\* A restart has loaded a directory other than the root, with a child.
C4_Witness ==
  /\ lastOp.kind = "Recover"
  /\ \E id \in DOMAIN dir_inodes_ :
       id # root_id_ /\ DOMAIN dir_inodes_[id].children # {}

\* C5: every edge on disk refers to a child whose inode record is on disk.
C5_EdgesHaveInodes ==
  \A key \in DOMAIN db.edges : db.edges[key] \in DOMAIN db.inodes

\* ------------------------------------------------------------------------
\* Worker: properties
\* ------------------------------------------------------------------------
\* The step just taken was a block engine call that took effect.
WCalled(kinds) == wops' # wops /\ lastW'.kind \in kinds

\* The tiers whose block table holds the block.
Holders(tiers, id) == {ty \in DOMAIN tiers : id \in DOMAIN tiers[ty].blocks_}

InPolicy(pol, id) ==
  IF pol.type = "LRU" THEN \E i \in 1..Len(pol.order_) : pol.order_[i] = id
  ELSE id \in DOMAIN pol.freq_map_

\* C6: a create_block that returns success leaves the block in exactly one
\* tier, and that tier had at least `size` bytes available at admission.
C6_CreatedInOneTier ==
  (lastW.kind = "CreateBlock" /\ lastW.status = "OK")
    => /\ Cardinality(Holders(tiers_, lastW.id)) = 1
       /\ lastW.avail >= lastW.size

\* Tier tables, metadata store, policy and block-to-tier map all say that
\* the block is absent.
Absent(tiers, meta, pol, map, id) ==
  /\ Holders(tiers, id) = {}
  /\ id \notin DOMAIN meta
  /\ ~InPolicy(pol, id)
  /\ id \notin DOMAIN map

\* C7: when the allocation of a block that was nowhere fails at some step,
\* the steps before it are undone: tier tables, metadata store, policy and
\* block-to-tier map agree afterwards that the block is absent.
C7_FailedCreateRolledBack ==
  [][/\ WCalled({"CreateBlock"})
     /\ lastW'.status # "OK"
     /\ Absent(tiers_, meta_store_, policy_, block_tier_map_, lastW'.id)
     => Absent(tiers_', meta_store_', policy_', block_tier_map_', lastW'.id)]_vars

RECURSIVE SumSizes(_, _)
SumSizes(blocks, ids) ==
  IF ids = <<>> THEN 0
  ELSE (IF Head(ids) \in DOMAIN blocks THEN blocks[Head(ids)] ELSE 0)
       + SumSizes(blocks, Tail(ids))

\* Every block of every tier is mapped to that tier, known to the policy
\* and accounted with its size.
Agree(tiers, map, pol, sizes) ==
  \A ty \in DOMAIN tiers : \A id \in DOMAIN tiers[ty].blocks_ :
    /\ id \in DOMAIN map /\ map[id] = ty
    /\ InPolicy(pol, id)
    /\ id \in DOMAIN sizes /\ sizes[id] = tiers[ty].blocks_[id]

\* C8: after evict_blocks(tier, bytes_needed) on a configured tier, with no
\* failing call and starting from tables that agree, the bytes freed in the
\* tier are at least bytes_needed or the policy is empty, and they never
\* exceed the summed sizes of the blocks reported as evicted.
C8_EvictionSufficient ==
  [][/\ WCalled({"EvictBlocks"})
     /\ ~lastW'.faulty
     /\ lastW'.tier \in DOMAIN tiers_
     /\ Agree(tiers_, block_tier_map_, policy_, block_sizes_)
     => LET t == lastW'.tier
            freed == tiers_[t].used_bytes_ - tiers_'[t].used_bytes_
        IN /\ freed >= lastW'.size \/ Size(policy_') = 0
           /\ freed <= SumSizes(tiers_[t].blocks_, lastW'.evicted)]_vars

\* C9: when a successful allocation has raised the tier's used/capacity
\* above the high watermark, the call leaves that tier's used/capacity at
\* or below the low watermark.
C9_AutoEvictToLowWatermark ==
  [][/\ WCalled({"CreateBlock"})
     /\ lastW'.status = "OK"
     /\ ~lastW'.faulty
     => LET t == lastW'.tier
            cap == tiers_[t].capacity_
            used_after_alloc == cap - lastW'.avail + lastW'.size
        IN used_after_alloc * 100 > auto_evict_high_watermark * cap
             => tiers_'[t].used_bytes_ * 100 <= auto_evict_low_watermark * cap]_vars

\* C10: a read, with no failing call, that takes the block's access count
\* to the threshold or beyond, while the next faster configured tier has
\* room for the block, leaves the block in that tier.
C10_HotBlockPromoted ==
  [][/\ WCalled({"ReadBlock"})
     /\ lastW'.status = "OK"
     /\ ~lastW'.faulty
     => LET id == lastW'.id
            cur == block_tier_map_[id]
            faster == {ty \in DOMAIN tiers_ : ty < cur}
            nxt == Max(faster)
        IN (/\ id \in DOMAIN meta_store_
            /\ Holders(tiers_, id) = {cur}
            /\ meta_store_[id].tier = cur
            /\ meta_store_[id].access_count + 1 >= auto_promote_access_threshold
            /\ faster # {}
            /\ GetAvailableBytes(tiers_[nxt]) >= meta_store_[id].length)
           => /\ block_tier_map_'[id] = nxt
              /\ Holders(tiers_', id) = {nxt}]_vars

\* C11: from its creation until its removal or eviction, reads promote a
\* block at most (number of configured tiers - 1) times.
C11_PromotionsBounded ==
  \A id \in DOMAIN promotions :
    promotions[id] <= Cardinality(DOMAIN tiers_) - 1

\* A read has just promoted a block to a faster tier.
C11_Witness ==
  /\ lastW.kind = "ReadBlock"
  /\ promotions[lastW.id] >= 1
  /\ lastW.id \in DOMAIN block_tier_map_
  /\ Holders(tiers_, lastW.id) = {block_tier_map_[lastW.id]}

\* A promote_block call that returned an error after it changed something.
PromoteFailed ==
  wops' # wops /\ lastW'.kind = "PromoteBlock" /\ lastW'.status # "OK"

\* C20: when promote_block fails, the block-to-tier map still names the
\* tier it named before, the block that was stored in that tier is still
\* stored there with the same bytes and is readable through the map, and
\* the metadata of the block is what it was.
C20_FailedPromoteKeepsSource ==
  [][PromoteFailed =>
       LET id == lastW'.id IN
       id \in DOMAIN block_tier_map_ =>
         LET src == block_tier_map_[id] IN
         /\ id \in DOMAIN block_tier_map_' /\ block_tier_map_'[id] = src
         /\ id \in DOMAIN tiers_[src].blocks_ =>
              /\ id \in DOMAIN tiers_'[src].blocks_
              /\ tiers_'[src].blocks_[id] = tiers_[src].blocks_[id]
              /\ TierReadBlock([tiers |-> tiers_'],
                               FindBlockTier([tiers |-> tiers_',
                                              map |-> block_tier_map_'], id),
                               id, {}) = "OK"
         /\ id \in DOMAIN meta_store_ =>
              id \in DOMAIN meta_store_' /\ meta_store_'[id] = meta_store_[id]
         /\ id \notin DOMAIN meta_store_ => id \notin DOMAIN meta_store_']_vars

\* A promote_block has failed after it had put the block in the destination
\* tier; the block is in its source tier, where the map and the metadata
\* say it is.
C20_Witness ==
  /\ lastW.kind = "PromoteBlock" /\ lastW.status # "OK"
  /\ lastW.id \in DOMAIN block_tier_map_
  /\ lastW.id \in DOMAIN meta_store_
  /\ meta_store_[lastW.id].tier = block_tier_map_[lastW.id]
  /\ block_tier_map_[lastW.id] # lastW.tier
  /\ {block_tier_map_[lastW.id], lastW.tier} \subseteq Holders(tiers_, lastW.id)

\* ------------------------------------------------------------------------
\* Worker: the data mover (src/worker/data_mover.cpp)
\* ------------------------------------------------------------------------
\* A worker thread is at one of these places of WorkerLoop:
\*   "while"         about to test running_ (line 96)
\*   "lock"          about to take mu_ and evaluate the wait predicate
\*   "about_to_wait" holds mu_, found the predicate false, not yet blocked
\*   "waiting"       blocked on cv_, mu_ released
\*   "woken"         notified, about to take mu_ again
\*   "execute"       in ExecuteTask (line 108)
\*   "decrement"     about to decrement active_tasks_ (line 113)
\*   "notify"        about to notify done_cv_ (line 114)
\*   "done"          returned from WorkerLoop
Waiting == {t \in Threads : pc[t] = "waiting"}

\* condition_variable::notify_one on cv_: one blocked thread, if there is
\* one, is woken.
NotifyOne(next_pc) ==
  IF Waiting = {} THEN next_pc = pc
  ELSE \E t \in Waiting : next_pc = [pc EXCEPT ![t] = "woken"]

\* condition_variable::notify_all on cv_.
NotifyAll == [t \in Threads |-> IF pc[t] = "waiting" THEN "woken" ELSE pc[t]]

\* DataMover::SubmitPreload / SubmitPersist: push under mu_, notify_one.
Submit ==
  /\ submitted < MaxTasks
  /\ mu_ = Nobody
  /\ submitted' = submitted + 1
  /\ tasks_' = Append(tasks_, submitted + 1)
  /\ NotifyOne(pc')
  /\ UNCHANGED <<running_, active_tasks_, mu_, task, wait_pc, stop_pc,
                 pending_at_stop, begun_after_stop>>
  /\ UNCHANGED notMover

\* WorkerLoop line 96: while (running_).
WhileRunning(t) ==
  /\ pc[t] = "while"
  /\ pc' = [pc EXCEPT ![t] = IF running_ THEN "lock" ELSE "done"]
  /\ UNCHANGED <<tasks_, running_, active_tasks_, mu_, task, wait_pc, stop_pc,
                 submitted, pending_at_stop, begun_after_stop>>
  /\ UNCHANGED notMover

\* WorkerLoop lines 99-106 with mu_ held: the wait predicate, then either
\* the return, or the pop, or the decision to block.
Acquire(t) ==
  /\ pc[t] \in {"lock", "woken"}
  /\ mu_ = Nobody
  /\ IF tasks_ # <<>>
     THEN /\ task' = [task EXCEPT ![t] = Head(tasks_)]
          /\ tasks_' = Tail(tasks_)
          /\ active_tasks_' = active_tasks_ + 1
          /\ pc' = [pc EXCEPT ![t] = "execute"]
          /\ begun_after_stop' = IF running_ THEN begun_after_stop
                                 ELSE begun_after_stop \cup {Head(tasks_)}
          /\ UNCHANGED mu_
     ELSE IF ~running_
     THEN /\ pc' = [pc EXCEPT ![t] = "done"]
          /\ UNCHANGED <<tasks_, active_tasks_, mu_, task, begun_after_stop>>
     ELSE /\ pc' = [pc EXCEPT ![t] = "about_to_wait"]
          /\ mu_' = t
          /\ UNCHANGED <<tasks_, active_tasks_, task, begun_after_stop>>
  /\ UNCHANGED <<running_, wait_pc, stop_pc, submitted, pending_at_stop>>
  /\ UNCHANGED notMover

\* condition_variable::wait: release mu_ and block.
Block(t) ==
  /\ pc[t] = "about_to_wait"
  /\ pc' = [pc EXCEPT ![t] = "waiting"]
  /\ mu_' = Nobody
  /\ UNCHANGED <<tasks_, running_, active_tasks_, task, wait_pc, stop_pc,
                 submitted, pending_at_stop, begun_after_stop>>
  /\ UNCHANGED notMover

\* WorkerLoop line 108: ExecuteTask returns.
ExecuteTask(t) ==
  /\ pc[t] = "execute"
  /\ pc' = [pc EXCEPT ![t] = "decrement"]
  /\ UNCHANGED <<tasks_, running_, active_tasks_, mu_, task, wait_pc, stop_pc,
                 submitted, pending_at_stop, begun_after_stop>>
  /\ UNCHANGED notMover

\* WorkerLoop line 113: active_tasks_--, mu_ not held.
Decrement(t) ==
  /\ pc[t] = "decrement"
  /\ active_tasks_' = active_tasks_ - 1
  /\ task' = [task EXCEPT ![t] = NoTask]
  /\ pc' = [pc EXCEPT ![t] = "notify"]
  /\ UNCHANGED <<tasks_, running_, mu_, wait_pc, stop_pc, submitted,
                 pending_at_stop, begun_after_stop>>
  /\ UNCHANGED notMover

\* WorkerLoop line 114: done_cv_.notify_all(), mu_ not held.
NotifyDone(t) ==
  /\ pc[t] = "notify"
  /\ pc' = [pc EXCEPT ![t] = "while"]
  /\ wait_pc' = IF wait_pc = "waiting" THEN "woken" ELSE wait_pc
  /\ UNCHANGED <<tasks_, running_, active_tasks_, mu_, task, stop_pc,
                 submitted, pending_at_stop, begun_after_stop>>
  /\ UNCHANGED notMover

\* A thread calls DataMover::WaitAll.
CallWaitAll ==
  /\ wait_pc = "idle"
  /\ wait_pc' = "lock"
  /\ UNCHANGED <<tasks_, running_, active_tasks_, mu_, pc, task, stop_pc,
                 submitted, pending_at_stop, begun_after_stop>>
  /\ UNCHANGED notMover

\* WaitAll line 77 with mu_ held: the predicate, then the return or the
\* decision to block.
WaitAllCheck ==
  /\ wait_pc \in {"lock", "woken"}
  /\ mu_ = Nobody
  /\ IF tasks_ = <<>> /\ active_tasks_ = 0
     THEN wait_pc' = "returned" /\ UNCHANGED mu_
     ELSE wait_pc' = "about_to_wait" /\ mu_' = WaitAllCaller
  /\ UNCHANGED <<tasks_, running_, active_tasks_, pc, task, stop_pc,
                 submitted, pending_at_stop, begun_after_stop>>
  /\ UNCHANGED notMover

\* condition_variable::wait on done_cv_: release mu_ and block.
WaitAllBlock ==
  /\ wait_pc = "about_to_wait"
  /\ wait_pc' = "waiting"
  /\ mu_' = Nobody
  /\ UNCHANGED <<tasks_, running_, active_tasks_, pc, task, stop_pc,
                 submitted, pending_at_stop, begun_after_stop>>
  /\ UNCHANGED notMover

\* Stop line 81: running_ = false, mu_ not held.
StopClear ==
  /\ stop_pc = "idle"
  /\ running_' = FALSE
  /\ pending_at_stop' = {tasks_[i] : i \in DOMAIN tasks_}
  /\ stop_pc' = "notify"
  /\ UNCHANGED <<tasks_, active_tasks_, mu_, pc, task, wait_pc, submitted,
                 begun_after_stop>>
  /\ UNCHANGED notMover

\* Stop line 82: cv_.notify_all(), mu_ not held.
StopNotify ==
  /\ stop_pc = "notify"
  /\ pc' = NotifyAll
  /\ stop_pc' = "join"
  /\ UNCHANGED <<tasks_, running_, active_tasks_, mu_, task, wait_pc,
                 submitted, pending_at_stop, begun_after_stop>>
  /\ UNCHANGED notMover

\* Stop lines 83-87: every thread has been joined.
StopJoin ==
  /\ stop_pc = "join"
  /\ \A t \in Threads : pc[t] = "done"
  /\ stop_pc' = "stopped"
  /\ UNCHANGED <<tasks_, running_, active_tasks_, mu_, pc, task, wait_pc,
                 submitted, pending_at_stop, begun_after_stop>>
  /\ UNCHANGED notMover

DInit ==
  NewMaster /\ NewBlockStore({kMemory}, "LRU") /\ NewDataMover /\ NewCoordinator /\ NewInodeStore /\ NewWorkerServer /\ NewChecker

DNext ==
  \/ Submit
  \/ \E t \in Threads : WhileRunning(t)
  \/ \E t \in Threads : Acquire(t)
  \/ \E t \in Threads : Block(t)
  \/ \E t \in Threads : ExecuteTask(t)
  \/ \E t \in Threads : Decrement(t)
  \/ \E t \in Threads : NotifyDone(t)
  \/ CallWaitAll
  \/ WaitAllCheck
  \/ WaitAllBlock
  \/ StopClear
  \/ StopNotify
  \/ StopJoin

\* Every thread that can take its next step eventually takes it; the calls
\* made from outside (Submit, WaitAll, Stop) may or may not happen.
DFair ==
  /\ \A t \in Threads :
       /\ WF_vars(WhileRunning(t)) /\ WF_vars(Acquire(t)) /\ WF_vars(Block(t))
       /\ WF_vars(ExecuteTask(t)) /\ WF_vars(Decrement(t))
       /\ WF_vars(NotifyDone(t))
  /\ WF_vars(WaitAllCheck) /\ WF_vars(WaitAllBlock)
  /\ WF_vars(StopNotify) /\ WF_vars(StopJoin)

SpecMover == DInit /\ [][DNext]_vars /\ DFair

\* ------------------------------------------------------------------------
\* Data mover: properties
\* ------------------------------------------------------------------------
\* Every submitted task has finished executing.
AllFinished == tasks_ = <<>> /\ \A t \in Threads : pc[t] # "execute"

\* C12: while the mover is not stopped, if from some moment on every
\* submitted task has finished executing, a pending wait_all() call
\* eventually returns.
C12_WaitAllReturns ==
  ([](stop_pc = "idle") /\ <>[]AllFinished)
    => ((wait_pc # "idle") ~> (wait_pc = "returned"))

\* C13: a call to stop() eventually returns with every worker thread joined.
C13_StopReturns ==
  (stop_pc # "idle") ~> (stop_pc = "stopped" /\ \A t \in Threads : pc[t] = "done")

\* C14: no task that was queued when stop() was called begins execution
\* afterwards.
C14_PendingDiscarded == pending_at_stop \cap begun_after_stop = {}

\* ------------------------------------------------------------------------
\* Master coordinator: WorkerManager, BlockMaster, FileSystemMaster
\* ------------------------------------------------------------------------
\* MakeBlockId: the inode id above the block index.
MakeBlockId(inode_id, block_index) ==
  inode_id * (2 ^ kBlockIndexBits) + (block_index % (2 ^ kBlockIndexBits))

\* GetBlockCount.
GetBlockCount(file_size, block_size) ==
  IF file_size = 0 THEN 0 ELSE (file_size + block_size - 1) \div block_size

\* WorkerManager::RegisterWorker on WM = [workers, next_id].
RegisterWorker(WM, address, capacity, used, t) ==
  LET same == {id \in DOMAIN WM.workers : WM.workers[id].address = address}
      ws(id) == [id |-> id, address |-> address, capacity_bytes |-> capacity,
                 used_bytes |-> used, last_heartbeat_ms |-> t, alive |-> TRUE]
  IN IF same # {}
     THEN LET id == CHOOSE x \in same : TRUE
          IN [WM |-> [WM EXCEPT !.workers = Put(@, id, ws(id))],
              status |-> "OK", id |-> id]
     ELSE LET id == WM.next_id
          IN [WM |-> [workers |-> Put(WM.workers, id, ws(id)),
                      next_id |-> id + 1],
              status |-> "OK", id |-> id]

\* WorkerManager::Heartbeat.
Heartbeat(WM, id, capacity, used, t) ==
  IF id \notin DOMAIN WM.workers
  THEN [WM |-> WM, status |-> "NotFound"]
  ELSE [WM |-> [WM EXCEPT !.workers[id] =
                  [@ EXCEPT !.capacity_bytes = capacity, !.used_bytes = used,
                            !.last_heartbeat_ms = t, !.alive = TRUE]],
        status |-> "OK"]

\* WorkerManager::SelectWorkerForWrite: the ids its loop can end with.  The
\* loop runs over an unordered_map and keeps a worker only when its
\* available bytes are strictly above the best so far, which starts at 0.
SelectWorkerForWrite(WM) ==
  LET alive == {id \in DOMAIN WM.workers : WM.workers[id].alive}
      avail(id) == WM.workers[id].capacity_bytes - WM.workers[id].used_bytes
      best == {id \in alive : avail(id) > 0 /\ \A o \in alive : avail(o) <= avail(id)}
  IN IF best = {} THEN {kInvalidWorkerId} ELSE best

\* WorkerManager::CheckHeartbeats.
CheckHeartbeats(WM, t) ==
  LET dead == {id \in DOMAIN WM.workers :
                 /\ WM.workers[id].alive
                 /\ t - WM.workers[id].last_heartbeat_ms > heartbeat_timeout_ms_}
  IN [WM |-> [WM EXCEPT !.workers =
                [id \in DOMAIN @ |->
                   IF id \in dead THEN [@[id] EXCEPT !.alive = FALSE] ELSE @[id]]],
      dead |-> dead]

\* std::remove_if over a vector of locations.
RECURSIVE RemoveIf(_, _)
RemoveIf(locs, worker_id) ==
  IF locs = <<>> THEN <<>>
  ELSE IF Head(locs).worker_id = worker_id THEN RemoveIf(Tail(locs), worker_id)
  ELSE <<Head(locs)>> \o RemoveIf(Tail(locs), worker_id)

\* BlockMaster::AddBlockLocation on BM = [locs, wblocks].
AddBlockLocation(BM, block_id, worker_id, address, tier) ==
  LET locs == IF block_id \in DOMAIN BM.locs THEN BM.locs[block_id] ELSE <<>>
      known == {i \in DOMAIN locs : locs[i].worker_id = worker_id}
      info == [block_id |-> block_id, worker_id |-> worker_id,
               worker_address |-> address, tier |-> tier]
      mine == IF worker_id \in DOMAIN BM.wblocks THEN BM.wblocks[worker_id]
              ELSE {}
  IN IF known # {}
     THEN [BM EXCEPT !.locs = Put(@, block_id,
             [i \in DOMAIN locs |->
                IF i = CHOOSE k \in known : \A o \in known : k <= o
                THEN [locs[i] EXCEPT !.tier = tier] ELSE locs[i]])]
     ELSE [locs |-> Put(BM.locs, block_id, Append(locs, info)),
           wblocks |-> Put(BM.wblocks, worker_id, mine \cup {block_id})]

\* BlockMaster::RemoveWorkerBlocks.
RemoveWorkerBlocks(BM, worker_id) ==
  IF worker_id \notin DOMAIN BM.wblocks THEN BM
  ELSE LET mine == BM.wblocks[worker_id] \cap DOMAIN BM.locs
           gone == {b \in mine : RemoveIf(BM.locs[b], worker_id) = <<>>}
       IN [locs |-> [b \in DOMAIN BM.locs \ gone |->
                       IF b \in mine THEN RemoveIf(BM.locs[b], worker_id)
                       ELSE BM.locs[b]],
           wblocks |-> Erase(BM.wblocks, worker_id)]

\* BlockMaster::RemoveBlock.
BlockMasterRemoveBlock(BM, block_id) ==
  IF block_id \notin DOMAIN BM.locs THEN BM
  ELSE LET at == {BM.locs[block_id][i].worker_id : i \in DOMAIN BM.locs[block_id]}
       IN [locs |-> Erase(BM.locs, block_id),
           wblocks |-> [w \in DOMAIN BM.wblocks |->
                          IF w \in at THEN BM.wblocks[w] \ {block_id}
                          ELSE BM.wblocks[w]]]

\* BlockMaster::GetBlockLocations for one block id, as a set.
GetBlockLocations(locs, block_id) ==
  IF block_id \in DOMAIN locs
  THEN {locs[block_id][i] : i \in DOMAIN locs[block_id]}
  ELSE {}

\* MasterServer::HeartbeatCheckLoop, one round: RemoveWorkerBlocks for every
\* worker CheckHeartbeats returned.
RECURSIVE RemoveDead(_, _)
RemoveDead(BM, dead) ==
  IF dead = {} THEN BM
  ELSE LET w == CHOOSE x \in dead : TRUE
       IN RemoveDead(RemoveWorkerBlocks(BM, w), dead \ {w})

\* InodeTree::GetInodeByPath (two-tier mode).
GetInodeByPath(T, parts) ==
  LET r == ResolvePathLocked(T.dir, parts, root_id_) IN
  IF r.status # "OK" THEN [status |-> r.status, inode |-> DefaultInode]
  ELSE IF r.id \in DOMAIN T.dir THEN [status |-> "OK", inode |-> T.dir[r.id]]
  ELSE GetInode(T.db, r.id)

\* The loops of DeleteFile and TruncateFile: RemoveBlock for the block
\* indexes first .. last - 1 of an inode.
RECURSIVE RemoveBlocks(_, _, _, _)
RemoveBlocks(BM, inode_id, first, last) ==
  IF first >= last THEN BM
  ELSE RemoveBlocks(BlockMasterRemoveBlock(BM, MakeBlockId(inode_id, first)),
                    inode_id, first + 1, last)

\* FileSystemMaster::CreateFile: the statuses and worker ids it can return.
FsCreateFile(T, WM, parts, mode) ==
  LET R == CreateFile(T, parts, mode, {})
  IN [T |-> R.T, status |-> R.status, inode |-> R.out,
      workers |-> IF R.status = "OK" THEN SelectWorkerForWrite(WM)
                  ELSE {kInvalidWorkerId}]

\* FileSystemMaster::DeleteFile.
FsDeleteFile(T, BM, parts, recursive) ==
  LET g == GetInodeByPath(T, parts)
      cleans == g.status = "OK" /\ ~g.inode.is_directory
      block_count == GetBlockCount(g.inode.size, kDefaultBlockSize)
      BM1 == IF cleans THEN RemoveBlocks(BM, g.inode.id, 0, block_count)
             ELSE BM
      R == Delete(T, parts, recursive, {})
  IN [T |-> R.T, BM |-> BM1, status |-> R.status]

\* FileSystemMaster::TruncateFile.
FsTruncateFile(T, BM, parts, new_size) ==
  LET g == GetInodeByPath(T, parts)
      new_block_count == GetBlockCount(new_size, kDefaultBlockSize)
      old_block_count == GetBlockCount(g.inode.size, kDefaultBlockSize)
      BM1 == IF new_size < g.inode.size
             THEN RemoveBlocks(BM, g.inode.id, new_block_count, old_block_count)
             ELSE BM
      R == UpdateSize(T, g.inode.id, new_size, {})
  IN IF g.status # "OK" THEN [T |-> T, BM |-> BM, status |-> g.status, inode |-> 0]
     ELSE IF g.inode.is_directory
     THEN [T |-> T, BM |-> BM, status |-> "InvalidArgument", inode |-> 0]
     ELSE [T |-> R.T, BM |-> BM1, status |-> R.status, inode |-> g.inode.id]

\* ------------------------------------------------------------------------
\* Master coordinator: inputs and actions
\* ------------------------------------------------------------------------
WorkerIds == 1..Cardinality(Addresses)
Used == {0, WorkerCapacity}
FileSizes == 0..MaxFileSize
\* The block worker processes write: the first block of the first file.
WrittenBlocks == {MakeBlockId(2, 0)}
\* The blocks reported to the master over RPC.
ReportedBlocks == {MakeBlockId(id, i) : id \in 2..3, i \in 0..1}

\* The worker id the location reports carry.
ReportingWorker == 1

Registry == [workers |-> workers_, next_id |-> worker_next_id_]
Locations == [locs |-> block_locations_, wblocks |-> worker_blocks_]

\* The effect of a coordinator call that left the tree T, the registry WM
\* and the location maps BM.  A call that failed without changing anything
\* is not counted and not recorded.
CReturns(T, WM, BM, call) ==
  /\ cops < MaxCOps
  /\ T.next_id <= MaxId + 1
  /\ IF /\ call.status # "OK"
        /\ T.dir = dir_inodes_ /\ T.db = db /\ T.next_id = next_id_
        /\ WM = Registry /\ BM = Locations
     THEN UNCHANGED <<lastC, cops>>
     ELSE lastC' = call /\ cops' = cops + 1
  /\ dir_inodes_' = T.dir
  /\ next_id_' = T.next_id
  /\ alloc_end_' = T.alloc_end
  /\ db' = T.db
  /\ workers_' = WM.workers
  /\ worker_next_id_' = WM.next_id
  /\ block_locations_' = BM.locs
  /\ worker_blocks_' = BM.wblocks
  /\ UNCHANGED <<up, lastOp, issued_before, ops, wvars, dvars, kvars, svars, lvars, pvars, hvars, rvars, xvars>>

\* WorkerServer::Start: the worker process registers with the master; when
\* the master cannot be reached it starts without an id.
WorkerStart(a) ==
  /\ a \notin started
  /\ \E used \in Used, reached \in BOOLEAN :
       LET R == RegisterWorker(Registry, a, WorkerCapacity, used, now) IN
       IF reached
       THEN /\ CReturns(Tree, R.WM, Locations,
                        [NoCCall EXCEPT !.kind = "RegisterWorker",
                                        !.worker = R.id, !.address = a])
            /\ worker_id_' = [worker_id_ EXCEPT ![a] = R.id]
       ELSE /\ CReturns(Tree, Registry, Locations,
                        [NoCCall EXCEPT !.kind = "WorkerStart", !.address = a])
            /\ UNCHANGED worker_id_
  /\ started' = started \cup {a}
  /\ UNCHANGED <<now, held>>

\* WorkerServer::Stop and the end of the process: it forgets its worker id,
\* its block store keeps the blocks.
WorkerStop(a) ==
  /\ a \in started
  /\ started' = started \ {a}
  /\ worker_id_' = [worker_id_ EXCEPT ![a] = kInvalidWorkerId]
  /\ CReturns(Tree, Registry, Locations,
              [NoCCall EXCEPT !.kind = "WorkerStop", !.address = a])
  /\ UNCHANGED <<now, held>>

\* WorkerServer::HeartbeatLoop, one round.
WorkerHeartbeat(a) ==
  /\ a \in started
  /\ \E used \in Used :
       IF worker_id_[a] = kInvalidWorkerId
       THEN LET R == RegisterWorker(Registry, a, WorkerCapacity, used, now) IN
            /\ CReturns(Tree, R.WM, Locations,
                        [NoCCall EXCEPT !.kind = "RegisterWorker",
                                        !.worker = R.id, !.address = a])
            /\ worker_id_' = [worker_id_ EXCEPT ![a] = R.id]
       ELSE LET R == Heartbeat(Registry, worker_id_[a], WorkerCapacity, used, now)
            IN /\ CReturns(Tree, R.WM, Locations,
                           [NoCCall EXCEPT !.kind = "Heartbeat",
                                           !.status = R.status,
                                           !.worker = worker_id_[a],
                                           !.address = a])
               /\ UNCHANGED worker_id_
  /\ UNCHANGED <<now, held, started>>

\* WorkerServiceImpl::WriteBlock: the block is stored, then reported to the
\* master when the worker has an id.
WorkerWriteBlock(a) ==
  /\ a \in started
  /\ \E b \in WrittenBlocks :
       /\ held' = [held EXCEPT ![a] = @ \cup {b}]
       /\ CReturns(Tree, Registry,
                   IF worker_id_[a] # kInvalidWorkerId
                   THEN AddBlockLocation(Locations, b, worker_id_[a], a, kMemory)
                   ELSE Locations,
                   [NoCCall EXCEPT !.kind = "WriteBlock", !.address = a,
                                   !.worker = worker_id_[a]])
  /\ UNCHANGED <<now, worker_id_, started>>

\* Time passes.
Tick ==
  /\ now < MaxTime
  /\ now' = now + 1
  /\ UNCHANGED <<mvars, wvars, dvars, kvars, svars, lvars, pvars, hvars, rvars, xvars, workers_, worker_next_id_,
                 block_locations_, worker_blocks_, worker_id_, held, started,
                 lastC, cops>>

\* MasterServer::HeartbeatCheckLoop, one round.
HeartbeatCheck ==
  /\ LET R == CheckHeartbeats(Registry, now) IN
     CReturns(Tree, R.WM, RemoveDead(Locations, R.dead),
              [NoCCall EXCEPT !.kind = "CheckHeartbeats", !.dead = R.dead])
  /\ UNCHANGED <<now, worker_id_, held, started>>

\* MasterServiceImpl::CreateFile.
DoFsCreateFile ==
  /\ \E parts \in Paths, mode \in Modes :
       LET R == FsCreateFile(Tree, Registry, parts, mode) IN
       \E w \in R.workers :
         CReturns(R.T, Registry, Locations,
                  [NoCCall EXCEPT !.kind = "CreateFile", !.status = R.status,
                                  !.worker = w, !.inode = R.inode])
  /\ UNCHANGED <<now, worker_id_, held, started>>

\* The master process is started again: a new FileSystemMaster with an
\* empty registry and empty location maps, and Init over the same store.
MasterRestart ==
  /\ LET R == Recover(NewTree, {}) IN
     CReturns(R.T, [workers |-> EmptyFn, next_id |-> 1],
              [locs |-> EmptyFn, wblocks |-> EmptyFn],
              [NoCCall EXCEPT !.kind = "MasterRestart", !.status = R.status])
  /\ UNCHANGED <<now, worker_id_, held, started>>

\* FileSystemMaster::Mkdir: AlreadyExists from the tree is answered as OK.
FsMkdir(T, parts, mode, recursive) ==
  LET R == CreateDirectory(T, parts, mode, recursive, {}) IN
  [T |-> R.T,
   status |-> IF R.status = "AlreadyExists" THEN "OK" ELSE R.status]

\* MasterServiceImpl::Mkdir over FileSystemMaster::Mkdir.
DoFsMkdir ==
  /\ \E parts \in Paths, mode \in Modes, recursive \in BOOLEAN :
       LET R == FsMkdir(Tree, parts, mode, recursive) IN
       CReturns(R.T, Registry, Locations,
                [NoCCall EXCEPT !.kind = "Mkdir", !.status = R.status])
  /\ UNCHANGED <<now, worker_id_, held, started>>

\* MasterServiceImpl::CompleteFile over FileSystemMaster::CompleteFile.
DoFsCompleteFile ==
  /\ \E id \in InodeIds, size \in FileSizes :
       LET R == CompleteFile(Tree, id, size, {}) IN
       CReturns(R.T, Registry, Locations,
                [NoCCall EXCEPT !.kind = "CompleteFile", !.status = R.status,
                                !.inode = id])
  /\ UNCHANGED <<now, worker_id_, held, started>>

\* MasterServiceImpl::ReportBlockLocation: the worker id and the address
\* that the request carries are recorded, whether registered or not.
DoReportBlockLocation ==
  /\ \E b \in ReportedBlocks :
       CReturns(Tree, Registry,
                AddBlockLocation(Locations, b, ReportingWorker, "w1", kMemory),
                [NoCCall EXCEPT !.kind = "ReportBlockLocation",
                                !.worker = ReportingWorker, !.address = "w1"])
  /\ UNCHANGED <<now, worker_id_, held, started>>

\* MasterServiceImpl::DeleteFile.
DoFsDeleteFile ==
  /\ \E parts \in Paths, recursive \in BOOLEAN :
       LET R == FsDeleteFile(Tree, Locations, parts, recursive) IN
       /\ R.status # "Crash"
       /\ CReturns(R.T, Registry, R.BM,
                   [NoCCall EXCEPT !.kind = "DeleteFile", !.status = R.status])
  /\ UNCHANGED <<now, worker_id_, held, started>>

\* MasterServiceImpl::TruncateFile.
DoFsTruncateFile ==
  /\ \E parts \in Paths, new_size \in FileSizes :
       LET R == FsTruncateFile(Tree, Locations, parts, new_size) IN
       CReturns(R.T, Registry, R.BM,
                [NoCCall EXCEPT !.kind = "TruncateFile", !.status = R.status,
                   !.inode = R.inode,
                   !.new_count = GetBlockCount(new_size, kDefaultBlockSize)])
  /\ UNCHANGED <<now, worker_id_, held, started>>

\* The master after FileSystemMaster::Init on an empty store.
UpMaster ==
  LET R == Recover([dir |-> NewDir, next_id |-> 2, alloc_end |-> 2,
                    db |-> EmptyDb, k |-> 0, ok |-> TRUE, ret |-> 0,
                    log |-> <<>>], {})
  IN /\ up = TRUE
     /\ dir_inodes_ = R.T.dir
     /\ next_id_ = R.T.next_id
     /\ alloc_end_ = R.T.alloc_end
     /\ db = R.T.db
     /\ lastOp = [kind |-> "Recover", status |-> R.status, new_id |-> 0,
                  log |-> R.T.log]
     /\ issued_before = 0
     /\ ops = 0

CInit ==
  UpMaster /\ NewBlockStore({kMemory}, "LRU") /\ NewDataMover /\ NewCoordinator /\ NewInodeStore /\ NewWorkerServer /\ NewChecker

\* The worker registry: worker processes, the heartbeat checker, worker
\* selection on create_file.
RNext ==
  \/ \E a \in Addresses : WorkerStart(a)
  \/ \E a \in Addresses : WorkerStop(a)
  \/ \E a \in Addresses : WorkerHeartbeat(a)
  \/ \E a \in Addresses : WorkerWriteBlock(a)
  \/ Tick
  \/ HeartbeatCheck
  \/ DoFsCreateFile
  \/ MasterRestart

SpecRegistry == CInit /\ [][RNext]_vars

\* Block cleanup: the namespace calls and the location reports.
FNext ==
  \/ DoFsMkdir
  \/ DoFsCreateFile
  \/ DoFsCompleteFile
  \/ DoReportBlockLocation
  \/ DoFsDeleteFile
  \/ DoFsTruncateFile

SpecCleanup == CInit /\ [][FNext]_vars

\* ------------------------------------------------------------------------
\* Master coordinator: properties
\* ------------------------------------------------------------------------
CCalled(kinds) == cops' # cops /\ lastC'.kind \in kinds

\* The worker ids that have a location for some block.
LocatedAt(locs, block_id) ==
  {l.worker_id : l \in GetBlockLocations(locs, block_id)}

\* The registered workers whose last heartbeat is older than the timeout.
Stale == {id \in DOMAIN workers_ :
            now - workers_[id].last_heartbeat_ms > heartbeat_timeout_ms_}

\* C15: when the periodic checker has run, no block has a location at a
\* worker whose last heartbeat is older than the heartbeat timeout, and the
\* locations at the other workers are the ones there were before.
C15_DeadWorkerLocationsGone ==
  [][CCalled({"CheckHeartbeats"}) =>
       \A b \in DOMAIN block_locations_ :
         /\ LocatedAt(block_locations_', b) \cap Stale = {}
         /\ \A l \in GetBlockLocations(block_locations_, b) :
              l.worker_id \notin Stale
                => l \in GetBlockLocations(block_locations_', b)]_vars

\* The files a step removed from the store, as <<id, size>>.
RemovedFiles ==
  {<<id, db.inodes[id].size>> :
     id \in {i \in DOMAIN db.inodes \ DOMAIN db'.inodes :
               ~db.inodes[i].is_directory}}

\* C16: after a successful delete no block of a removed file has a
\* location; after a successful shrinking truncate no block of the file at
\* or beyond the new block count has one.
C16_RemovedBlocksHaveNoLocation ==
  [][/\ (CCalled({"DeleteFile"}) /\ lastC'.status = "OK") =>
          \A f \in RemovedFiles :
            \A i \in 0..(GetBlockCount(f[2], kDefaultBlockSize) - 1) :
              GetBlockLocations(block_locations_', MakeBlockId(f[1], i)) = {}
     /\ (/\ CCalled({"TruncateFile"}) /\ lastC'.status = "OK"
         /\ db'.inodes[lastC'.inode].size < db.inodes[lastC'.inode].size) =>
          \A i \in lastC'.new_count ..
                   (GetBlockCount(db.inodes[lastC'.inode].size,
                                  kDefaultBlockSize) - 1) :
            GetBlockLocations(block_locations_',
                              MakeBlockId(lastC'.inode, i)) = {}]_vars

\* C18: when a worker that was declared dead and still holds blocks
\* registers again, every block it holds has a location at it.
C18_ReRegistrationRebuildsLocations ==
  [][(/\ CCalled({"RegisterWorker"})
      /\ \E id \in DOMAIN workers_ :
           workers_[id].address = lastC'.address /\ ~workers_[id].alive)
       => \A b \in held[lastC'.address] :
            lastC'.worker \in LocatedAt(block_locations_', b)]_vars

\* The alive workers and the bytes they have available.
Alive == {id \in DOMAIN workers_ : workers_[id].alive}
Available(id) == workers_[id].capacity_bytes - workers_[id].used_bytes

\* C19: with at least one alive worker, create_file returns an alive worker
\* whose available bytes are maximal among the alive workers.
C19_MostAvailableAliveWorker ==
  [][(CCalled({"CreateFile"}) /\ lastC'.status = "OK" /\ Alive # {}) =>
       /\ lastC'.worker \in Alive
       /\ \A o \in Alive : Available(o) <= Available(lastC'.worker)]_vars

\* ------------------------------------------------------------------------
\* Worker: threads calling the block store at the same time
\* ------------------------------------------------------------------------
\* One block of one byte range, written whole.  A writer thread, a reader
\* thread and a promoting thread call BlockStore::WriteBlock, ReadBlock and
\* PromoteBlock on it; each step below is one critical section of the call
\* (BlockStore::mu_ or a StorageTier::mu_), the steps of different threads
\* interleave freely.  The bytes of the n-th WriteBlock call are n; a new
\* block holds zeros.
TheBlock == 1
TheSize == 1
Promoters == {"reader", "promoter"}

Goto(t, at) == tpc' = [tpc EXCEPT ![t] = at]

\* A step leaves the block engine as W.
EngineBecomes(W) ==
  /\ tiers_' = W.tiers
  /\ meta_store_' = W.meta
  /\ block_tier_map_' = W.map
  /\ policy_' = W.pol
  /\ block_sizes_' = W.sizes
  /\ total_cached_bytes_' = W.total

SetEngine(W) ==
  /\ EngineBecomes(W)
  /\ UNCHANGED <<lastW, wops, promotions, mvars, dvars, kvars, svars, lvars, pvars, hvars, rvars, cvars>>

\* BlockStore::CreateBlock, before any other call on the block.
ThreadsCreateBlock ==
  /\ ~HasBlock(Engine, TheBlock)
  /\ n_removes = 0
  /\ LET R == CreateBlock(Engine, TheBlock, TheSize, {}) IN
     /\ SetEngine(R.W)
     /\ block_bytes' = Put(block_bytes, R.tier, 0)
  /\ UNCHANGED <<tpc, src_tier, dst_type, exported, n_writes, completed,
                 n_reads, n_promotes, lastRead>>

\* BlockStore::WriteBlock: FindBlockTier.
WriteFind ==
  /\ tpc["writer"] = "idle"
  /\ n_writes < MaxWrites
  /\ HasBlock(Engine, TheBlock)
  /\ n_writes' = n_writes + 1
  /\ src_tier' = [src_tier EXCEPT !["writer"] = FindBlockTier(Engine, TheBlock)]
  /\ Goto("writer", "tier_write")
  /\ UNCHANGED <<block_bytes, dst_type, exported, completed, n_reads,
                 n_promotes, lastRead, mvars, wvars, dvars, kvars, svars, lvars, pvars, hvars, rvars, cvars>>

\* BlockStore::WriteBlock: StorageTier::WriteBlock on the tier found, then
\* the policy update and the return, which touch neither the bytes nor the
\* block-to-tier map.
WriteTier ==
  /\ tpc["writer"] = "tier_write"
  /\ LET ty == src_tier["writer"]
         s == TierWriteBlock(Engine, ty, TheBlock, TheSize, {})
     IN IF s = "OK"
        THEN /\ block_bytes' = [block_bytes EXCEPT ![ty] = n_writes]
             /\ completed' = n_writes
             /\ SetEngine(OnBlockAccess(Engine, TheBlock))
        ELSE /\ UNCHANGED <<block_bytes, completed>>
             /\ SetEngine(Engine)
  /\ Goto("writer", "idle")
  /\ UNCHANGED <<src_tier, dst_type, exported, n_writes, n_reads, n_promotes,
                 lastRead>>

\* BlockStore::ReadBlock: FindBlockTier.  The call starts here.
ReadFind ==
  /\ tpc["reader"] = "idle"
  /\ n_reads < MaxReads
  /\ HasBlock(Engine, TheBlock)
  /\ n_reads' = n_reads + 1
  /\ src_tier' = [src_tier EXCEPT !["reader"] = FindBlockTier(Engine, TheBlock)]
  /\ lastRead' = [status |-> "Running", value |-> 0, floor |-> completed]
  /\ Goto("reader", "tier_read")
  /\ UNCHANGED <<block_bytes, dst_type, exported, n_writes, completed,
                 n_promotes, mvars, wvars, dvars, kvars, svars, lvars, pvars, hvars, rvars, cvars>>

\* BlockStore::ReadBlock: StorageTier::ReadBlock on the tier found, and the
\* policy update.  The bytes and the status the call returns are known.
ReadTier ==
  /\ tpc["reader"] = "tier_read"
  /\ LET ty == src_tier["reader"]
         s == TierReadBlock(Engine, ty, TheBlock, {})
     IN IF s = "OK"
        THEN /\ lastRead' = [lastRead EXCEPT !.status = "OK",
                                             !.value = block_bytes[ty]]
             /\ SetEngine(OnBlockAccess(Engine, TheBlock))
             /\ Goto("reader", "meta")
        ELSE /\ lastRead' = [lastRead EXCEPT !.status = s]
             /\ SetEngine(Engine)
             /\ Goto("reader", "idle")
  /\ UNCHANGED <<block_bytes, src_tier, dst_type, exported, n_writes,
                 completed, n_reads, n_promotes>>

\* The tier MaybeAutoPromote decides to promote to, or NoTier.
AutoPromoteTarget(W, id, meta) ==
  IF auto_promote_access_threshold = 0 THEN NoTier
  ELSE IF meta.access_count < auto_promote_access_threshold THEN NoTier
  ELSE IF id \notin DOMAIN W.map THEN NoTier
  ELSE LET current_tier == W.map[id]
           faster == IF current_tier = kHDD THEN kSSD
                     ELSE IF current_tier = kSSD THEN kMemory
                     ELSE current_tier
           dst == FindTier(W, faster)
       IN IF current_tier \notin {kHDD, kSSD} THEN NoTier
          ELSE IF dst = NoTier THEN NoTier
          ELSE IF GetAvailableBytes(W.tiers[dst]) < meta.length THEN NoTier
          ELSE faster

\* The variables of the store's clients that a step of the reading thread
\* between its two MetaStore calls leaves alone.
ReaderFrame ==
  UNCHANGED <<lastW, wops, promotions, block_bytes, src_tier, exported,
              n_writes, completed, n_reads, n_promotes, lastRead, n_removes,
              mvars, dvars, kvars, svars, lvars, pvars, hvars, cvars>>

\* BlockStore::ReadBlock line 95: GetBlockMeta into the local `meta`, and
\* the access count raised in that copy.
ReadMeta ==
  /\ tpc["reader"] = "meta"
  /\ IF ~GetBlockMetaOk(Engine, TheBlock, {})
     THEN Goto("reader", "idle") /\ UNCHANGED held_meta
     ELSE /\ held_meta' = [meta_store_[TheBlock] EXCEPT !.access_count = @ + 1]
          /\ Goto("reader", "meta_put")
  /\ EngineBecomes(Engine)
  /\ UNCHANGED dst_type
  /\ ReaderFrame

\* BlockStore::ReadBlock lines 98-101: PutBlockMeta of the local copy, then
\* MaybeAutoPromote up to its call of PromoteBlock.
ReadMetaPut ==
  /\ tpc["reader"] = "meta_put"
  /\ LET W2 == PutBlockMeta(Engine, TheBlock, held_meta, {})
         to == AutoPromoteTarget(W2, TheBlock, held_meta)
     IN /\ EngineBecomes(W2)
        /\ IF to = NoTier
           THEN Goto("reader", "idle") /\ UNCHANGED dst_type
           ELSE /\ Goto("reader", "p_find")
                /\ dst_type' = [dst_type EXCEPT !["reader"] = to]
  /\ held_meta' = NoMeta
  /\ ReaderFrame

\* BlockStore::RemoveBlock line 124: FindBlockTier.  The call starts here.
RemoveFind ==
  /\ tpc["remover"] = "idle"
  /\ n_removes < MaxRemoves
  /\ HasBlock(Engine, TheBlock)
  /\ n_removes' = n_removes + 1
  /\ src_tier' = [src_tier EXCEPT !["remover"] = FindBlockTier(Engine, TheBlock)]
  /\ Goto("remover", "r_tier")
  /\ UNCHANGED <<block_bytes, dst_type, exported, n_writes, completed, n_reads,
                 n_promotes, lastRead, held_meta, mvars, wvars, dvars, kvars,
                 svars, lvars, pvars, hvars, cvars>>

\* BlockStore::RemoveBlock lines 125-127: StorageTier::RemoveBlock on the
\* tier found, its status ignored.
RemoveTier ==
  /\ tpc["remover"] = "r_tier"
  /\ LET ty == src_tier["remover"]
         R == IF ty = NoTier THEN [W |-> Engine, status |-> "NotFound"]
              ELSE TierRemoveBlock(Engine, ty, TheBlock)
     IN /\ SetEngine(R.W)
        /\ block_bytes' = IF R.status = "OK" THEN Erase(block_bytes, ty)
                          ELSE block_bytes
  /\ Goto("remover", "r_policy")
  /\ UNCHANGED <<src_tier, dst_type, exported, n_writes, completed, n_reads,
                 n_promotes, lastRead>>

\* BlockStore::RemoveBlock line 129: CacheManager::OnBlockRemove.
RemovePolicy ==
  /\ tpc["remover"] = "r_policy"
  /\ SetEngine(OnBlockRemove(Engine, TheBlock))
  /\ Goto("remover", "r_meta")
  /\ UNCHANGED <<block_bytes, src_tier, dst_type, exported, n_writes,
                 completed, n_reads, n_promotes, lastRead>>

\* BlockStore::RemoveBlock line 130: MetaStore::DeleteBlockMeta.
RemoveMeta ==
  /\ tpc["remover"] = "r_meta"
  /\ SetEngine(DeleteBlockMeta(Engine, TheBlock, {}))
  /\ Goto("remover", "r_map")
  /\ UNCHANGED <<block_bytes, src_tier, dst_type, exported, n_writes,
                 completed, n_reads, n_promotes, lastRead>>

\* BlockStore::RemoveBlock lines 132-138: the block-to-tier map, and the
\* return.
RemoveMap ==
  /\ tpc["remover"] = "r_map"
  /\ SetEngine([Engine EXCEPT !.map = Erase(@, TheBlock)])
  /\ Goto("remover", "idle")
  /\ UNCHANGED <<block_bytes, src_tier, dst_type, exported, n_writes,
                 completed, n_reads, n_promotes, lastRead>>

\* A call of BlockStore::PromoteBlock by the promoting thread.
PromoteCall ==
  /\ tpc["promoter"] = "idle"
  /\ n_promotes < MaxPromotes
  /\ HasBlock(Engine, TheBlock)
  /\ n_promotes' = n_promotes + 1
  /\ \E ty \in DOMAIN tiers_ :
       dst_type' = [dst_type EXCEPT !["promoter"] = ty]
  /\ Goto("promoter", "p_find")
  /\ UNCHANGED <<block_bytes, src_tier, exported, n_writes, completed,
                 n_reads, lastRead, mvars, wvars, dvars, kvars, svars, lvars, pvars, hvars, rvars, cvars>>

\* BlockStore::PromoteBlock: FindBlockTier and FindTier.
PromoteFind(t) ==
  /\ tpc[t] = "p_find"
  /\ LET src == FindBlockTier(Engine, TheBlock) IN
     IF src = NoTier \/ src = dst_type[t]
        \/ FindTier(Engine, dst_type[t]) = NoTier
     THEN Goto(t, "idle") /\ UNCHANGED src_tier
     ELSE Goto(t, "p_export") /\ src_tier' = [src_tier EXCEPT ![t] = src]
  /\ UNCHANGED <<block_bytes, dst_type, exported, n_writes, completed,
                 n_reads, n_promotes, lastRead, mvars, wvars, dvars, kvars, svars, lvars, pvars, hvars, rvars, cvars>>

\* BlockStore::PromoteBlock: ExportBlock from the source tier.
PromoteExport(t) ==
  /\ tpc[t] = "p_export"
  /\ IF ExportBlock(Engine, src_tier[t], TheBlock, {}).status = "OK"
     THEN /\ exported' = [exported EXCEPT ![t] = block_bytes[src_tier[t]]]
          /\ Goto(t, "p_allocate")
     ELSE Goto(t, "idle") /\ UNCHANGED exported
  /\ UNCHANGED <<block_bytes, src_tier, dst_type, n_writes, completed,
                 n_reads, n_promotes, lastRead, mvars, wvars, dvars, kvars, svars, lvars, pvars, hvars, rvars, cvars>>

\* StorageTier::ImportBlock: AllocateBlock in the destination tier.
PromoteAllocate(t) ==
  /\ tpc[t] = "p_allocate"
  /\ LET A == TierAllocateBlock(Engine, dst_type[t], TheBlock, TheSize, {}) IN
     IF A.status = "OK"
     THEN /\ SetEngine(A.W)
          /\ block_bytes' = Put(block_bytes, dst_type[t], 0)
          /\ Goto(t, "p_write")
     ELSE SetEngine(Engine) /\ Goto(t, "idle") /\ UNCHANGED block_bytes
  /\ UNCHANGED <<src_tier, dst_type, exported, n_writes, completed, n_reads,
                 n_promotes, lastRead>>

\* StorageTier::ImportBlock: WriteBlock of the exported bytes.
PromoteWrite(t) ==
  /\ tpc[t] = "p_write"
  /\ IF TierWriteBlock(Engine, dst_type[t], TheBlock, TheSize, {}) = "OK"
     THEN /\ block_bytes' = [block_bytes EXCEPT ![dst_type[t]] = exported[t]]
          /\ Goto(t, "p_remove")
     ELSE Goto(t, "idle") /\ UNCHANGED block_bytes
  /\ UNCHANGED <<src_tier, dst_type, exported, n_writes, completed, n_reads,
                 n_promotes, lastRead, mvars, wvars, dvars, kvars, svars, lvars, pvars, hvars, rvars, cvars>>

\* BlockStore::PromoteBlock: RemoveBlock from the source tier.
PromoteRemove(t) ==
  /\ tpc[t] = "p_remove"
  /\ LET R == TierRemoveBlock(Engine, src_tier[t], TheBlock) IN
     /\ SetEngine(R.W)
     /\ block_bytes' = IF R.status = "OK" THEN Erase(block_bytes, src_tier[t])
                       ELSE block_bytes
  /\ Goto(t, "p_meta")
  /\ UNCHANGED <<src_tier, dst_type, exported, n_writes, completed, n_reads,
                 n_promotes, lastRead>>

\* BlockStore::PromoteBlock: the tier in the metadata.
PromoteMeta(t) ==
  /\ tpc[t] = "p_meta"
  /\ SetEngine(IF GetBlockMetaOk(Engine, TheBlock, {})
               THEN PutBlockMeta(Engine, TheBlock,
                                 [meta_store_[TheBlock]
                                    EXCEPT !.tier = dst_type[t]], {})
               ELSE Engine)
  /\ Goto(t, "p_map")
  /\ UNCHANGED <<block_bytes, src_tier, dst_type, exported, n_writes,
                 completed, n_reads, n_promotes, lastRead>>

\* BlockStore::PromoteBlock: the block-to-tier map, and the return.
PromoteMap(t) ==
  /\ tpc[t] = "p_map"
  /\ SetEngine([Engine EXCEPT !.map = Put(@, TheBlock, dst_type[t])])
  /\ Goto(t, "idle")
  /\ UNCHANGED <<block_bytes, src_tier, dst_type, exported, n_writes,
                 completed, n_reads, n_promotes, lastRead>>

\* A worker with a memory tier and an SSD tier.
TInit ==
  NewMaster /\ NewBlockStore({kMemory, kSSD}, "LRU") /\ NewDataMover
  /\ NewCoordinator /\ NewInodeStore /\ NewWorkerServer /\ NewChecker

TNext ==
  \/ ThreadsCreateBlock
  \/ WriteFind
  \/ WriteTier
  \/ ReadFind
  \/ ReadTier
  \/ ReadMeta
  \/ ReadMetaPut
  \/ RemoveFind
  \/ RemoveTier
  \/ RemovePolicy
  \/ RemoveMeta
  \/ RemoveMap
  \/ PromoteCall
  \/ \E t \in Promoters : PromoteFind(t)
  \/ \E t \in Promoters : PromoteExport(t)
  \/ \E t \in Promoters : PromoteAllocate(t)
  \/ \E t \in Promoters : PromoteWrite(t)
  \/ \E t \in Promoters : PromoteRemove(t)
  \/ \E t \in Promoters : PromoteMeta(t)
  \/ \E t \in Promoters : PromoteMap(t)

SpecThreads == TInit /\ [][TNext]_vars

\* C17: a read that returned OK returned the bytes of the latest write that
\* had completed when the read started, or of a later write.
C17_ReadSeesCompletedWrite ==
  lastRead.status = "OK" => lastRead.value >= lastRead.floor

\* ------------------------------------------------------------------------
\* Master: lookups after a cold restart
\* ------------------------------------------------------------------------
\* InodeTree::GetInodeById (two-tier mode).
GetInodeById(T, id) ==
  IF id \in DOMAIN T.dir THEN [status |-> "OK", inode |-> T.dir[id]]
  ELSE GetInode(T.db, id)

\* The tree of a new process after SetStore and Recover on the store d,
\* every commit of Recover succeeding.
Restarted(d) == Recover([NewTree EXCEPT !.db = d], {}).T

\* The lookup g found an inode with the fields of `want`.
Found(g, want) ==
  /\ g.status = "OK"
  /\ g.inode.id = want.id
  /\ g.inode.parent_id = want.parent_id
  /\ g.inode.name = want.name
  /\ g.inode.is_directory = want.is_directory
  /\ g.inode.size = want.size
  /\ g.inode.mode = want.mode
  /\ g.inode.is_complete = want.is_complete

\* create_file(parts, mode) and complete_file(id, size) from the current
\* state, then a restart: both lookups return the fields written.
FileRoundTrip(parts, mode, size) ==
  LET c == CreateFile(Tree, parts, mode, {}) IN
  c.status = "OK" =>
    LET f == CompleteFile(c.T, c.out, size, {}) IN
    f.status = "OK" =>
      LET A == Restarted(f.T.db)
          want == [id |-> c.out,
                   parent_id |-> ResolveParent(dir_inodes_, parts, root_id_).id,
                   name |-> Last(parts), is_directory |-> FALSE,
                   size |-> size, mode |-> mode, is_complete |-> TRUE]
      IN /\ Found(GetInodeById(A, c.out), want)
         /\ Found(GetInodeByPath(A, parts), want)

\* create_directory(parts, mode, recursive) from the current state, then a
\* restart: both lookups return the fields of the directory created last.
DirRoundTrip(parts, mode, recursive) ==
  LET c == CreateDirectory(Tree, parts, mode, recursive, {}) IN
  (c.status = "OK" /\ parts # <<>>) =>
    LET A == Restarted(c.T.db)
        want == [id |-> c.out,
                 parent_id |-> ResolveParent(c.T.dir, parts, root_id_).id,
                 name |-> Last(parts), is_directory |-> TRUE,
                 size |-> 0, mode |-> mode, is_complete |-> TRUE]
    IN /\ Found(GetInodeById(A, c.out), want)
       /\ Found(GetInodeByPath(A, parts), want)

\* C21: an inode written through the tree (a file created and completed
\* with size S, or a directory created) is returned with the same id,
\* parent, name, kind, size, mode and complete flag by a lookup by id and
\* by a lookup by path after a cold restart and recovery.
C21_WrittenInodeSurvivesRestart ==
  up => /\ \A parts \in Paths, mode \in Modes, size \in Sizes :
             FileRoundTrip(parts, mode, size)
        /\ \A parts \in Paths, mode \in Modes, recursive \in BOOLEAN :
             DirRoundTrip(parts, mode, recursive)

\* p is a leading part of the path q.
IsPrefix(p, q) == Len(p) <= Len(q) /\ SubSeq(q, 1, Len(p)) = p

\* What a rename of src (inode id) to dst_parts must leave in the tree T:
\* src gone, dst the same inode under its new name and parent, and every
\* path outside the renamed subtree resolving as in the tree B, which is
\* the tree without the rename.
Renamed(T, B, src_parts, dst_parts, id, dst_parent_id) ==
  LET g == GetInodeByPath(T, dst_parts) IN
  /\ ResolvePathLocked(T.dir, src_parts, root_id_).status = "NotFound"
  /\ g.status = "OK"
  /\ g.inode.id = id
  /\ g.inode.name = Last(dst_parts)
  /\ g.inode.parent_id = dst_parent_id
  /\ \A p \in Paths :
       ~IsPrefix(src_parts, p) /\ ~IsPrefix(dst_parts, p) =>
         ResolvePathLocked(T.dir, p, root_id_) =
           ResolvePathLocked(B.dir, p, root_id_)

\* C22: after a successful rename(src, dst), src no longer resolves and dst
\* resolves to the same inode id with its name and parent updated, both
\* immediately and after a restart; every other path outside the renamed
\* subtree resolves as before.
C22_RenameMovesInode ==
  up => \A src_parts \in Paths, dst_parts \in Paths :
          LET R == Rename(Tree, src_parts, dst_parts, {}) IN
          R.status = "OK" =>
            LET id == ResolvePathLocked(dir_inodes_, src_parts, root_id_).id
                dst_parent_id ==
                  ResolveParent(dir_inodes_, dst_parts, root_id_).id
            IN /\ Renamed(R.T, Tree, src_parts, dst_parts, id, dst_parent_id)
               /\ Renamed(Restarted(R.T.db), Restarted(db), src_parts,
                          dst_parts, id, dst_parent_id)

\* The inodes at and below the path `parts` in the current tree.
Subtree(parts) ==
  {ResolvePathLocked(dir_inodes_, p, root_id_).id :
     p \in {q \in Paths : /\ IsPrefix(parts, q)
                          /\ ResolvePathLocked(dir_inodes_, q, root_id_).status
                               = "OK"}}

\* What a recursive delete of the directory at `parts` must leave in the
\* tree T: nothing of the subtree `gone` found by path or by id, in memory
\* or in the store, and every other path looked up as in the tree B, which
\* is the tree without the delete.
Deleted(T, B, parts, gone) ==
  /\ \A p \in Paths :
       IF IsPrefix(parts, p) THEN GetInodeByPath(T, p).status # "OK"
       ELSE LET g == GetInodeByPath(T, p)
                h == GetInodeByPath(B, p)
            IN /\ g.status = h.status
               /\ g.status = "OK" => Found(g, h.inode)
  /\ \A id \in gone :
       /\ GetInodeById(T, id).status # "OK"
       /\ id \notin DOMAIN T.dir
       /\ id \notin DOMAIN T.db.inodes

\* C23: after a successful delete(path, recursive = true) of a directory,
\* neither the directory nor any descendant can be found by path or by id,
\* in memory or in the store, immediately and after a restart; the siblings
\* of the deleted directory are unaffected.
C23_RecursiveDeleteRemovesSubtree ==
  up => \A parts \in Paths :
          LET r == ResolvePathLocked(dir_inodes_, parts, root_id_)
              R == Delete(Tree, parts, TRUE, {})
          IN (/\ r.status = "OK"
              /\ r.id \in DOMAIN dir_inodes_
              /\ dir_inodes_[r.id].is_directory
              /\ R.status = "OK") =>
               /\ Deleted(R.T, Tree, parts, Subtree(parts))
               /\ Deleted(Restarted(R.T.db), Restarted(db), parts,
                          Subtree(parts))

\* ------------------------------------------------------------------------
\* Cache manager: the calls made on a CacheManager directly
\* ------------------------------------------------------------------------
CacheIds == 1..MaxCacheBlocks
BytesNeeded == 1..MaxCacheBlocks

\* The manager of the block store as a record of the engine's shape.
Manager == [pol |-> policy_, sizes |-> block_sizes_,
            total |-> total_cached_bytes_]

\* A call on the manager returned, leaving it as W; U is what the manager
\* was told of and has not given up since.
KReturns(W, call, U) ==
  /\ policy_' = W.pol
  /\ block_sizes_' = W.sizes
  /\ total_cached_bytes_' = W.total
  /\ lastW' = call
  /\ wops' = wops + 1
  /\ uses' = U
  /\ UNCHANGED <<mvars, dvars, svars, lvars, pvars, hvars, rvars, cvars, xvars, tiers_, meta_store_,
                 block_tier_map_, promotions>>

\* The record of one more insert or access of block id at this call.
Touched(id) ==
  Put(uses, id, [at |-> wops + 1,
                 n |-> IF id \in DOMAIN uses THEN uses[id].n + 1 ELSE 1])

DoOnBlockInsert ==
  /\ wops < MaxCacheOps
  /\ \E id \in CacheIds, size \in BlockSizes :
       KReturns(OnBlockInsert(Manager, id, size),
                [NoCall EXCEPT !.kind = "OnBlockInsert", !.id = id,
                               !.size = size],
                Touched(id))

DoOnBlockAccess ==
  /\ wops < MaxCacheOps
  /\ \E id \in CacheIds :
       KReturns(OnBlockAccess(Manager, id),
                [NoCall EXCEPT !.kind = "OnBlockAccess", !.id = id],
                IF id \in DOMAIN uses THEN Touched(id) ELSE uses)

DoOnBlockRemove ==
  /\ wops < MaxCacheOps
  /\ \E id \in CacheIds :
       KReturns(OnBlockRemove(Manager, id),
                [NoCall EXCEPT !.kind = "OnBlockRemove", !.id = id],
                Erase(uses, id))

DoGetEvictionCandidates ==
  /\ wops < MaxCacheOps
  /\ \E bytes_needed \in BytesNeeded :
       LET G == GetEvictionCandidates(Manager, bytes_needed) IN
       KReturns(G.W,
                [NoCall EXCEPT !.kind = "GetEvictionCandidates",
                               !.size = bytes_needed, !.evicted = G.victims],
                Restrict(uses, (DOMAIN uses) \
                               {G.victims[i] : i \in 1..Len(G.victims)}))

KInit ==
  /\ NewMaster
  /\ NewDataMover
  /\ NewCoordinator /\ NewInodeStore /\ NewWorkerServer /\ NewChecker
  /\ \E cache_policy \in PolicyTypes : NewBlockStore({kMemory}, cache_policy)

KNext ==
  \/ DoOnBlockInsert
  \/ DoOnBlockAccess
  \/ DoOnBlockRemove
  \/ DoGetEvictionCandidates

SpecCache == KInit /\ [][KNext]_vars

\* ------------------------------------------------------------------------
\* Cache manager: properties
\* ------------------------------------------------------------------------
\* The step is a GetEvictionCandidates call.
Candidates == wops' # wops /\ lastW'.kind = "GetEvictionCandidates"

\* The blocks returned by the call of this step.
Victims == {lastW'.evicted[i] : i \in 1..Len(lastW'.evicted)}

\* C24: under the LRU policy a block is returned as an eviction candidate
\* only if every tracked block whose most recent insert or access is older
\* has also been returned, and the candidates come oldest first.
C24_LRUCandidatesOldestFirst ==
  [][(Candidates /\ policy_.type = "LRU") =>
       /\ Victims \subseteq DOMAIN uses
       /\ \A v \in Victims, u \in DOMAIN uses :
            uses[u].at < uses[v].at => u \in Victims
       /\ \A i, j \in 1..Len(lastW'.evicted) :
            i < j => uses[lastW'.evicted[i]].at < uses[lastW'.evicted[j]].at
    ]_vars

\* Candidates were returned under LRU while a block that had been accessed
\* after a later insert stayed tracked.
C24_Witness ==
  /\ policy_.type = "LRU"
  /\ lastW.kind = "GetEvictionCandidates"
  /\ lastW.evicted # <<>>
  /\ \E u \in DOMAIN uses : uses[u].n > 1 /\ u < lastW.evicted[1]

\* The state after OnBlockInsert of blocks 1, 2 and 3 with one size for
\* all (the unit of size stands for 100 bytes) and then OnBlockAccess(1),
\* under LRU: the fourth call was the access of block 1, its second use,
\* and blocks 2 and 3 were last used by the second and the third call.
LRUScenario ==
  /\ policy_.type = "LRU"
  /\ wops = 4
  /\ lastW.kind = "OnBlockAccess"
  /\ lastW.id = 1
  /\ uses = (1 :> [at |-> 4, n |-> 2] @@ 2 :> [at |-> 2, n |-> 1]
             @@ 3 :> [at |-> 3, n |-> 1])
  /\ block_sizes_ = [id \in {1, 2, 3} |-> 1]
  /\ total_cached_bytes_ = 3

\* C25 as stated: after inserting blocks 1, 2 and 3 of 100 bytes each and
\* accessing block 1, a request for eviction of 200 bytes yields exactly
\* the set {2}.
C25_Stated ==
  [][(LRUScenario /\ Candidates /\ lastW'.size = 2) => Victims = {2}]_vars

\* C25, amended: after inserting blocks 1, 2 and 3 of 100 bytes each and
\* accessing block 1, a request for eviction of 200 bytes yields blocks 2
\* and 3, in this order; block 1 stays.
C25_LRUScenarioYieldsTwoBlocks ==
  [][(LRUScenario /\ Candidates /\ lastW'.size = 2) =>
       /\ lastW'.evicted = <<2, 3>>
       /\ DOMAIN block_sizes_' = {1}
    ]_vars

\* The request for 200 bytes was made after the scenario.
C25_Witness ==
  /\ policy_.type = "LRU"
  /\ wops = 5
  /\ lastW.kind = "GetEvictionCandidates"
  /\ lastW.size = 2
  /\ Len(lastW.evicted) = 2
  /\ uses = (1 :> [at |-> 4, n |-> 2])
  /\ total_cached_bytes_ = 1

\* C26: under the LFU policy every block returned by evict has the least
\* number of inserts and accesses among the blocks tracked at that moment
\* (the blocks returned earlier in the same call are no longer tracked),
\* and evict returns a block whenever at least one block is tracked.
C26_LFUEvictsLeastFrequent ==
  [][(Candidates /\ policy_.type = "LFU") =>
       LET ev == lastW'.evicted IN
       /\ Victims \subseteq DOMAIN uses
       /\ \A i \in 1..Len(ev) :
            \A u \in (DOMAIN uses) \ {ev[j] : j \in 1..(i - 1)} :
              uses[ev[i]].n <= uses[u].n
       /\ DOMAIN uses # {} => ev # <<>>
    ]_vars

\* Candidates were returned under LFU while a block used more often than
\* the first of them, and inserted before it, stayed tracked.
C26_Witness ==
  /\ policy_.type = "LFU"
  /\ lastW.kind = "GetEvictionCandidates"
  /\ lastW.evicted # <<>>
  /\ \E u \in DOMAIN uses : uses[u].n > 1 /\ u < lastW.evicted[1]

\* The sum of the sizes recorded in a block_sizes_ map.
RECURSIVE SumOfSizes(_)
SumOfSizes(sizes) ==
  IF DOMAIN sizes = {} THEN 0
  ELSE LET id == CHOOSE x \in DOMAIN sizes : TRUE
       IN sizes[id] + SumOfSizes(Erase(sizes, id))

\* C27: after any sequence of inserts (an insert of an id already tracked
\* included), removes and evictions, the aggregate cached-bytes counter is
\* the sum of the recorded sizes of the blocks the manager tracks.
C27_CachedBytesIsSumOfSizes ==
  total_cached_bytes_ = SumOfSizes(block_sizes_)

\* ------------------------------------------------------------------------
\* Master: the shape of the inode graph
\* ------------------------------------------------------------------------
\* The ids reached from the ids in `seen` through the children maps of the
\* directory map.
RECURSIVE ReachableFrom(_, _)
ReachableFrom(dir, seen) ==
  LET more == UNION {{dir[id].children[n] : n \in DOMAIN dir[id].children}
                     : id \in seen \cap DOMAIN dir}
  IN IF more \subseteq seen THEN seen ELSE ReachableFrom(dir, seen \cup more)

\* The ids below the directory id, the directory itself not included
\* unless a chain of children links leads back to it.
Descendants(dir, id) ==
  IF id \notin DOMAIN dir THEN {}
  ELSE LET kids == {dir[id].children[n] : n \in DOMAIN dir[id].children}
       IN IF kids = {} THEN {} ELSE ReachableFrom(dir, kids)

IsTree(dir) ==
  LET dirs == {id \in DOMAIN dir : dir[id].is_directory} IN
  /\ dirs \subseteq ReachableFrom(dir, {root_id_})
  /\ \A id \in dirs : id \notin Descendants(dir, id)

\* C28: after any sequence of successful namespace operations the inode
\* graph is a tree rooted at inode 1: every directory held in the
\* directory map is reachable from the root through children links, and no
\* directory is its own ancestor. Stated step by step: a namespace
\* operation that starts from a tree and returns OK leaves a tree.
C28_InodeGraphIsTree ==
  [][(up /\ up' /\ IsTree(dir_inodes_) /\ lastOp'.status = "OK")
       => IsTree(dir_inodes_')]_vars

\* ------------------------------------------------------------------------
\* Inode store: the owner/group dictionary
\* ------------------------------------------------------------------------
\* OwnerGroupDict::GetOrAdd on one of the two lists: the id of the string,
\* the list after the call, and whether the call set dirty_.  Ids are
\* uint8_t, so a full list gives id 0.
GetOrAdd(str, list) ==
  IF str = "" THEN [id |-> 0, list |-> list, added |-> FALSE]
  ELSE IF \E i \in 1..Len(list) : list[i] = str
       THEN [id |-> CHOOSE i \in 1..Len(list) : list[i] = str,
             list |-> list, added |-> FALSE]
  ELSE IF Len(list) >= 255 THEN [id |-> 0, list |-> list, added |-> FALSE]
  ELSE [id |-> Len(list) + 1, list |-> Append(list, str), added |-> TRUE]

\* OwnerGroupDict::Lookup.
Lookup(id, list) == IF id = 0 \/ id > Len(list) THEN "" ELSE list[id]

\* What DeserializeList reads back from SerializeList(list): the count byte
\* holds at most 255 entries.  The strings are shorter than 255 bytes.
SerializeList(list) ==
  SubSeq(list, 1, IF Len(list) > 255 THEN 255 ELSE Len(list))

\* SerializeInodeEntry(inode, dict): the owner and group ids of the header,
\* and the dictionary after the two GetOrAdd calls.
SerializeOwnerGroup(inode, dict) ==
  LET o == GetOrAdd(inode.owner, dict.owners_)
      g == GetOrAdd(inode.group, dict.groups_)
  IN [entry |-> [owner_id |-> o.id, group_id |-> g.id],
      dict |-> [owners_ |-> o.list, groups_ |-> g.list,
                dirty_ |-> dict.dirty_ \/ o.added \/ g.added]]

\* InodeStore::MaybePersistDict on the batch under construction B, a
\* record of the operations added so far and of the dictionary.
MaybePersistDict(B) ==
  IF B.dict.dirty_
  THEN [batch |-> B.batch \o
                    <<[op |-> "PutOwners", list |-> SerializeList(B.dict.owners_)],
                      [op |-> "PutGroups", list |-> SerializeList(B.dict.groups_)]>>,
        dict |-> [B.dict EXCEPT !.dirty_ = FALSE]]
  ELSE B

\* InodeStore::BatchPutInode with the dictionary.
PutInodeWithDict(B, inode) ==
  LET S == SerializeOwnerGroup(inode, B.dict) IN
  MaybePersistDict(
    [batch |-> Append(B.batch, [op |-> "PutInode", id |-> inode.id,
                                entry |-> S.entry]),
     dict |-> S.dict])

\* BatchPutInode for each inode of a sequence, into one batch.
RECURSIVE PutInodes(_, _)
PutInodes(B, inodes) ==
  IF inodes = <<>> THEN B
  ELSE PutInodes(PutInodeWithDict(B, Head(inodes)), Tail(inodes))

\* rocksdb::DB::Write of a batch on the inodes column family.
RECURSIVE WriteDictBatch(_, _)
WriteDictBatch(cf, batch) ==
  IF batch = <<>> THEN cf
  ELSE LET o == Head(batch)
           cf1 == IF o.op = "PutInode"
                  THEN [cf EXCEPT !.inodes = Put(@, o.id, o.entry)]
                  ELSE IF o.op = "PutOwners" THEN [cf EXCEPT !.owners = o.list]
                  ELSE [cf EXCEPT !.groups = o.list]
       IN WriteDictBatch(cf1, Tail(batch))

\* InodeStore::Open on the database: the dictionary a new store object
\* loads.
LoadDict(cf) ==
  [owners_ |-> cf.owners, groups_ |-> cf.groups, dirty_ |-> FALSE]

\* The owner and group strings given for each id by a sequence of inodes,
\* a later inode of the same id replacing an earlier one.
RECURSIVE Given(_, _)
Given(g, inodes) ==
  IF inodes = <<>> THEN g
  ELSE Given(Put(g, Head(inodes).id,
                 [owner |-> Head(inodes).owner, group |-> Head(inodes).group]),
             Tail(inodes))

StoreIds == 1..MaxStoreIds
OwnerNames == {"", "alice", "bob"}
GroupNames == {"", "eng"}
StoreInodes == [id : StoreIds, owner : OwnerNames, group : GroupNames]
InodeBatches == UNION {[1..n -> StoreInodes] : n \in 1..MaxBatch}

\* A caller builds a batch of BatchPutInode calls and commits it; the
\* commit succeeds or returns IOError.
DoCommitInodes ==
  /\ sops < MaxStoreOps
  /\ \E inodes \in InodeBatches, fails \in BOOLEAN :
       LET B == PutInodes([batch |-> <<>>, dict |-> dict_], inodes) IN
       /\ dict_' = B.dict
       /\ cf_inodes_' = IF fails THEN cf_inodes_
                        ELSE WriteDictBatch(cf_inodes_, B.batch)
       /\ given' = IF fails THEN given ELSE Given(given, inodes)
  /\ sops' = sops + 1
  /\ UNCHANGED <<mvars, wvars, dvars, kvars, lvars, pvars, hvars, rvars, cvars, xvars>>

\* The process restarts: a new InodeStore opens the database.
DoReopen ==
  /\ dict_' = LoadDict(cf_inodes_)
  /\ UNCHANGED <<cf_inodes_, given, sops>>
  /\ UNCHANGED <<mvars, wvars, dvars, kvars, lvars, pvars, hvars, rvars, cvars, xvars>>

SInit ==
  /\ NewMaster
  /\ NewDataMover
  /\ NewCoordinator
  /\ NewInodeStore /\ NewWorkerServer /\ NewChecker
  /\ NewBlockStore({kMemory}, "LRU")

SNext ==
  \/ DoCommitInodes
  \/ DoReopen

SpecDict == SInit /\ [][SNext]_vars

\* C29: every inode record durably committed with a non-zero owner or
\* group id resolves, after a restart, to the string of the inode it was
\* serialized from, whatever earlier commits failed.
C29_CommittedIdsResolve ==
  \A id \in DOMAIN cf_inodes_.inodes :
    LET e == cf_inodes_.inodes[id]
        d == LoadDict(cf_inodes_)
    IN /\ e.owner_id # 0 => Lookup(e.owner_id, d.owners_) = given[id].owner
       /\ e.group_id # 0 => Lookup(e.group_id, d.groups_) = given[id].group

\* ------------------------------------------------------------------------
\* Block engine: mutexes
\* ------------------------------------------------------------------------
\* StorageTier::mu_ of the tier of type ty, CacheManager::mu_ and
\* BlockStore::mu_ (the lock of the block-to-tier map).  The MetaStore's
\* own mutex is taken and released inside its calls with none of these
\* held inside it, and is left out.
TierLock(ty) == <<"tier", ty>>
CacheLock == <<"cache", 0>>
MapLock == <<"map", 0>>

\* A std::lock_guard scope with nothing locked inside it.
Locked(l) == <<[call |-> "lock", lock |-> l], [call |-> "unlock", lock |-> l]>>

\* The lock and unlock calls of the engine's code paths, in program order.
\* FindBlockTier and HasBlock lock the map; every StorageTier call locks
\* its tier; every CacheManager call locks the manager.
FindBlockTierLocks == Locked(MapLock)

\* CreateBlock into tier ty without eviction: AllocateBlock, the map
\* update, OnBlockInsert.
CreateBlockLocks(ty) ==
  Locked(TierLock(ty)) \o Locked(MapLock) \o Locked(CacheLock)

\* EvictBlocks with one candidate held by tier ty: GetEvictionCandidates,
\* FindBlockTier, RemoveBlock on the tier, the map erase.
EvictBlocksLocks(ty) ==
  Locked(CacheLock) \o FindBlockTierLocks \o Locked(TierLock(ty))
    \o Locked(MapLock)

\* PromoteBlock from tier src to tier dst: FindBlockTier, ExportBlock,
\* ImportBlock (AllocateBlock, then WriteBlock), RemoveBlock on the source,
\* the map update.
PromoteBlockLocks(src, dst) ==
  FindBlockTierLocks \o Locked(TierLock(src)) \o Locked(TierLock(dst))
    \o Locked(TierLock(dst)) \o Locked(TierLock(src)) \o Locked(MapLock)

\* ReadBlock of a block in tier ty: FindBlockTier, the tier read,
\* OnBlockAccess; with promote set, MaybeAutoPromote reads the map and
\* calls PromoteBlock.
ReadBlockLocks(ty, promote) ==
  FindBlockTierLocks \o Locked(TierLock(ty)) \o Locked(CacheLock)
    \o (IF promote /\ ty # kMemory
        THEN Locked(MapLock) \o PromoteBlockLocks(ty, ty - 1)
        ELSE <<>>)

WriteBlockLocks(ty) ==
  FindBlockTierLocks \o Locked(TierLock(ty)) \o Locked(CacheLock)

\* RemoveBlock: FindBlockTier, the tier removal, OnBlockRemove, the map
\* erase.
RemoveBlockLocks(ty) ==
  FindBlockTierLocks \o Locked(TierLock(ty)) \o Locked(CacheLock)
    \o Locked(MapLock)

\* Recover with one block recorded in the MetaStore for tier ty: HasBlock
\* on the tier, then the map lock held over the map update and
\* OnBlockInsert.
RecoverLocks(ty) ==
  Locked(TierLock(ty))
    \o <<[call |-> "lock", lock |-> MapLock],
         [call |-> "lock", lock |-> CacheLock],
         [call |-> "unlock", lock |-> CacheLock],
         [call |-> "unlock", lock |-> MapLock]>>

LockTiers == {kMemory, kSSD}
EnginePaths ==
  {CreateBlockLocks(ty) : ty \in LockTiers}
    \cup {EvictBlocksLocks(ty) : ty \in LockTiers}
    \cup {PromoteBlockLocks(kSSD, kMemory), PromoteBlockLocks(kMemory, kSSD)}
    \cup {ReadBlockLocks(ty, p) : ty \in LockTiers, p \in BOOLEAN}
    \cup {WriteBlockLocks(ty) : ty \in LockTiers}
    \cup {RemoveBlockLocks(ty) : ty \in LockTiers}
    \cup {RecoverLocks(ty) : ty \in LockTiers}

\* The thread t enters an engine call.
EngineCall(t) ==
  /\ lk_path[t] = <<>>
  /\ \E path \in EnginePaths : lk_path' = [lk_path EXCEPT ![t] = path]
  /\ UNCHANGED <<lk_held, lk_last>>
  /\ UNCHANGED <<mvars, wvars, dvars, kvars, svars, pvars, hvars, rvars, cvars, xvars>>

\* std::mutex::lock by thread t: it waits while another thread holds the
\* mutex.
LockMutex(t) ==
  /\ lk_path[t] # <<>>
  /\ Head(lk_path[t]).call = "lock"
  /\ \A u \in Callers \ {t} : Head(lk_path[t]).lock \notin lk_held[u]
  /\ lk_last' = [lk_last EXCEPT ![t] = [lock |-> Head(lk_path[t]).lock,
                                        held |-> lk_held[t]]]
  /\ lk_held' = [lk_held EXCEPT ![t] = @ \cup {Head(lk_path[t]).lock}]
  /\ lk_path' = [lk_path EXCEPT ![t] = Tail(@)]
  /\ UNCHANGED <<mvars, wvars, dvars, kvars, svars, pvars, hvars, rvars, cvars, xvars>>

UnlockMutex(t) ==
  /\ lk_path[t] # <<>>
  /\ Head(lk_path[t]).call = "unlock"
  /\ lk_held' = [lk_held EXCEPT ![t] = @ \ {Head(lk_path[t]).lock}]
  /\ lk_path' = [lk_path EXCEPT ![t] = Tail(@)]
  /\ UNCHANGED lk_last
  /\ UNCHANGED <<mvars, wvars, dvars, kvars, svars, pvars, hvars, rvars, cvars, xvars>>

LInit ==
  /\ NewMaster
  /\ NewDataMover
  /\ NewCoordinator
  /\ NewInodeStore /\ NewWorkerServer /\ NewChecker
  /\ NewBlockStore({kMemory, kSSD}, "LRU")

LNext ==
  \/ \E t \in Callers : EngineCall(t)
  \/ \E t \in Callers : LockMutex(t)
  \/ \E t \in Callers : UnlockMutex(t)

SpecLocks == LInit /\ [][LNext]_vars

\* The place of a mutex in the order tier lock, cache manager lock, map
\* lock.
LockRank(l) ==
  IF l[1] = "tier" THEN 1 ELSE IF l[1] = "cache" THEN 2 ELSE 3

\* C30: a code path of the block engine that holds more than one of the
\* tier lock, the cache manager lock and the map lock acquires them in the
\* order tier lock, cache manager lock, map lock, and no path locks a mutex
\* it already holds.
C30_LockOrder ==
  \A t \in Callers :
    /\ lk_last[t].lock \notin lk_last[t].held
    /\ \A h \in lk_last[t].held : LockRank(h) < LockRank(lk_last[t].lock)

\* ------------------------------------------------------------------------
\* Worker process: WorkerServer, its RPC service and its DataMover
\* ------------------------------------------------------------------------
\* The caller of Start and Stop is at one of these places:
\*   "constructed"    before Start
\*   "failed"         Start returned Internal: the gRPC server did not start
\*   "serving"        Start returned OK
\*   "stop_mover"     in Stop, about to call data_mover_->Stop() (line 133)
\*   "join_mover"     in DataMover::Stop, joining the threads
\*   "stop_grpc"      about to call grpc_server_->Shutdown() (line 137)
\*   "join_heartbeat" about to join the heartbeat thread (line 141)
\*   "stopped"        Stop has returned
\* The metrics server, which Stop halts first, has no thread that touches
\* the state below.
TaskTypes == {"kPreload", "kPersist"}

\* WorkerServer::Start.  running_ is set, the heartbeat thread is started
\* (a master address is configured), the DataMover is created with the
\* two-argument constructor, which leaves ufs_ null, and the gRPC server is
\* built; when it cannot listen, running_ is cleared and Start fails.
SrvStart ==
  /\ srv_pc = "constructed"
  /\ ~srv_running
  /\ \E listening \in BOOLEAN :
       /\ srv_running' = listening
       /\ grpc_serving' = listening
       /\ srv_pc' = IF listening THEN "serving" ELSE "failed"
  /\ hb_pc' = "loop"
  /\ mover' = [exists |-> TRUE, running_ |-> TRUE, tasks_ |-> <<>>,
               ufs_ |-> FALSE, threads_ |-> [t \in Threads |-> "loop"]]
  /\ UNCHANGED <<n_tasks, acked, executed, halted>>
  /\ UNCHANGED <<mvars, wvars, dvars, kvars, svars, lvars, hvars, rvars, cvars, xvars>>

\* DataMover::SubmitPreload / SubmitPersist without a backend argument:
\* owned_ufs is null.
SrvSubmit(M, id, type) ==
  [M EXCEPT !.tasks_ = Append(@, [id |-> id, type |-> type,
                                  owned_ufs |-> FALSE])]

\* WorkerServiceImpl::AsyncCacheBlock and PersistBlock, served by the gRPC
\* server: InvalidArgument on an empty ufs_path, Internal without a
\* DataMover, otherwise the status of the submit.
SrvRpc(type) ==
  /\ n_tasks < MaxTasks
  /\ \E path_empty \in BOOLEAN :
       IF path_empty \/ ~mover.exists
       THEN UNCHANGED <<mover, n_tasks, acked>>
       ELSE /\ mover' = SrvSubmit(mover, n_tasks + 1, type)
            /\ n_tasks' = n_tasks + 1
            /\ acked' = acked \cup {n_tasks + 1}
  /\ UNCHANGED <<srv_running, srv_pc, grpc_serving, hb_pc, executed, halted>>
  /\ UNCHANGED <<mvars, wvars, dvars, kvars, svars, lvars, hvars, rvars, cvars, xvars>>

SrvAsyncCacheBlock ==
  /\ grpc_serving
  /\ SrvRpc("kPreload")

SrvPersistBlock ==
  /\ grpc_serving
  /\ SrvRpc("kPersist")

\* DataMover::ExecuteTask: the backend of the task, else the mover's own;
\* without either the task fails with Internal("no UFS available"),
\* otherwise it ends as the backend and the block store let it.
SrvExecuteTask(M, t) ==
  IF ~(t.owned_ufs \/ M.ufs_)
  THEN {[status |-> "Internal", no_ufs |-> TRUE]}
  ELSE {[status |-> st, no_ufs |-> FALSE] : st \in {"OK", "IOError"}}

\* DataMover::WorkerLoop, one pass of a thread.  With running_ set it pops
\* and executes a task when there is one.  With running_ cleared it leaves
\* at the loop test, or, when it was waiting and a task is queued, executes
\* that task first.
SrvWorkerLoop(t) ==
  /\ mover.threads_[t] = "loop"
  /\ \/ /\ mover.tasks_ # <<>>
        /\ \E r \in SrvExecuteTask(mover, Head(mover.tasks_)) :
             executed' = Put(executed, Head(mover.tasks_).id, r)
        /\ mover' = [mover EXCEPT !.tasks_ = Tail(@)]
     \/ /\ ~mover.running_
        /\ mover' = [mover EXCEPT !.threads_[t] = "done"]
        /\ UNCHANGED executed
  /\ UNCHANGED <<srv_running, srv_pc, grpc_serving, hb_pc, n_tasks, acked,
                 halted>>
  /\ UNCHANGED <<mvars, wvars, dvars, kvars, svars, lvars, hvars, rvars, cvars, xvars>>

\* WorkerServer::HeartbeatLoop leaves when it finds running_ cleared.
SrvHeartbeatExit ==
  /\ hb_pc = "loop"
  /\ ~srv_running
  /\ hb_pc' = "done"
  /\ UNCHANGED <<srv_running, srv_pc, grpc_serving, mover, n_tasks, acked,
                 executed, halted>>
  /\ UNCHANGED <<mvars, wvars, dvars, kvars, svars, lvars, hvars, rvars, cvars, xvars>>

\* WorkerServer::Stop lines 124-130: running_ is cleared.
SrvStopBegin ==
  /\ srv_pc = "serving"
  /\ srv_running
  /\ srv_running' = FALSE
  /\ srv_pc' = "stop_mover"
  /\ UNCHANGED <<grpc_serving, hb_pc, mover, n_tasks, acked, executed, halted>>
  /\ UNCHANGED <<mvars, wvars, dvars, kvars, svars, lvars, hvars, rvars, cvars, xvars>>

\* Stop line 133, DataMover::Stop lines 81-82: running_ cleared, notify_all.
SrvStopMover ==
  /\ srv_pc = "stop_mover"
  /\ mover' = [mover EXCEPT !.running_ = FALSE]
  /\ srv_pc' = "join_mover"
  /\ UNCHANGED <<srv_running, grpc_serving, hb_pc, n_tasks, acked, executed,
                 halted>>
  /\ UNCHANGED <<mvars, wvars, dvars, kvars, svars, lvars, hvars, rvars, cvars, xvars>>

\* DataMover::Stop lines 83-87: every thread has been joined.
SrvJoinMover ==
  /\ srv_pc = "join_mover"
  /\ \A t \in Threads : mover.threads_[t] = "done"
  /\ halted' = Append(halted, "mover")
  /\ srv_pc' = "stop_grpc"
  /\ UNCHANGED <<srv_running, grpc_serving, hb_pc, mover, n_tasks, acked,
                 executed>>
  /\ UNCHANGED <<mvars, wvars, dvars, kvars, svars, lvars, hvars, rvars, cvars, xvars>>

\* Stop line 137: grpc_server_->Shutdown() returns when no call is served
\* any longer.
SrvShutdownGrpc ==
  /\ srv_pc = "stop_grpc"
  /\ grpc_serving' = FALSE
  /\ halted' = Append(halted, "rpc")
  /\ srv_pc' = "join_heartbeat"
  /\ UNCHANGED <<srv_running, hb_pc, mover, n_tasks, acked, executed>>
  /\ UNCHANGED <<mvars, wvars, dvars, kvars, svars, lvars, hvars, rvars, cvars, xvars>>

\* Stop line 141: the heartbeat thread has been joined.
SrvJoinHeartbeat ==
  /\ srv_pc = "join_heartbeat"
  /\ hb_pc = "done"
  /\ halted' = Append(halted, "heartbeat")
  /\ srv_pc' = "stopped"
  /\ UNCHANGED <<srv_running, grpc_serving, hb_pc, mover, n_tasks, acked,
                 executed>>
  /\ UNCHANGED <<mvars, wvars, dvars, kvars, svars, lvars, hvars, rvars, cvars, xvars>>

PInit ==
  /\ NewMaster
  /\ NewDataMover
  /\ NewCoordinator
  /\ NewInodeStore /\ NewWorkerServer /\ NewChecker
  /\ NewBlockStore({kMemory}, "LRU")

PNext ==
  \/ SrvStart
  \/ SrvAsyncCacheBlock
  \/ SrvPersistBlock
  \/ \E t \in Threads : SrvWorkerLoop(t)
  \/ SrvHeartbeatExit
  \/ SrvStopBegin
  \/ SrvStopMover
  \/ SrvJoinMover
  \/ SrvShutdownGrpc
  \/ SrvJoinHeartbeat

SpecServer == PInit /\ [][PNext]_vars

\* C31: on a shutdown the worker halts its RPC server, then the data mover
\* queue, then the heartbeat loop, in that order, each joined before the
\* next is halted.
C31_ShutdownOrder == IsPrefix(halted, <<"rpc", "mover", "heartbeat">>)

\* C40: a preload or persist task enqueued by an AsyncCacheBlock or
\* PersistBlock call that answered OK executes with an external store bound
\* to it, so it never fails for the lack of one.
C40_AckedTaskHasBackend ==
  \A id \in acked \cap DOMAIN executed : ~executed[id].no_ufs

\* ------------------------------------------------------------------------
\* Worker: warm restart
\* ------------------------------------------------------------------------
\* The block files block_<id> that a disk tier has under its path: one per
\* block AllocateDisk has created and RemoveDisk has not unlinked.
BlockFiles(W) ==
  [ty \in DOMAIN W.tiers \ {kMemory} |-> DOMAIN W.tiers[ty].blocks_]

\* The worker process ends and is started again with the same options:
\* BlockStore::BlockStore builds every StorageTier anew, and
\* StorageTier::StorageTier only creates the directory, so blocks_ is empty
\* and used_bytes_ is 0; the policy and the map are empty; the MetaStore
\* opens the records that were written.
RestartedEngine(W) ==
  [tiers |-> [ty \in DOMAIN W.tiers |-> NewTier],
   meta |-> W.meta,
   map |-> EmptyFn,
   pol |-> NewPolicy(W.pol.type),
   sizes |-> EmptyFn,
   total |-> 0]

\* The loop of BlockStore::Recover over the scanned records.
RECURSIVE RecoverLoop(_, _, _)
RecoverLoop(W, all_meta, io) ==
  IF all_meta = <<>> THEN W
  ELSE LET id == Head(all_meta)
           meta == W.meta[id]
           tier == FindTier(W, meta.tier)
           W1 == IF tier # NoTier /\ id \in DOMAIN W.tiers[tier].blocks_
                 THEN OnBlockInsert([W EXCEPT !.map = Put(@, id, meta.tier)],
                                    id, meta.length)
                 ELSE DeleteBlockMeta(W, id, io)
       IN RecoverLoop(W1, Tail(all_meta), io)

\* BlockStore::Recover.
RecoverBlocks(W, io) ==
  IF "ScanAll" \in io THEN [W |-> W, status |-> "IOError"]
  ELSE [W |-> RecoverLoop(W, SetToSeq(DOMAIN W.meta), io), status |-> "OK"]

\* C32: after the worker process restarts and runs recovery, every block
\* whose metadata record was persisted and whose bytes still exist in a
\* disk tier is in the block-to-tier map, tracked by the eviction policy and
\* readable; only the records whose backing is gone are deleted.
C32_WarmRestartRecovers ==
  LET files == BlockFiles(Engine)
      A == RecoverBlocks(RestartedEngine(Engine), {}).W
  IN \A id \in DOMAIN meta_store_ :
       IF /\ meta_store_[id].tier \in DOMAIN files
          /\ id \in files[meta_store_[id].tier]
       THEN /\ id \in DOMAIN A.meta
            /\ id \in DOMAIN A.map
            /\ A.map[id] = meta_store_[id].tier
            /\ InPolicy(A.pol, id)
            /\ ReadBlock(A, id, {}).status = "OK"
       ELSE id \notin DOMAIN A.meta

\* ------------------------------------------------------------------------
\* Master: the directory map after a rejected call
\* ------------------------------------------------------------------------
\* Every entry of the in-memory directory map is a directory that the
\* store holds under the same id.
OnlyDirectories(dir, d) ==
  \A id \in DOMAIN dir :
    /\ dir[id].is_directory
    /\ dir[id].id = id
    /\ id \in DOMAIN d.inodes
    /\ d.inodes[id].is_directory

\* C33: a create_file, create_directory or rename call that returns an
\* error leaves the in-memory directory map as it was, and the map holds no
\* entry for a file inode or for an id that was never created as a
\* directory.
C33_RejectedCallKeepsDirMap ==
  [][(/\ up /\ up'
      /\ Called({"CreateFile", "CreateDirectory", "Rename"})
      /\ lastOp'.status # "OK"
      /\ OnlyDirectories(dir_inodes_, db))
       => (/\ dir_inodes_' = dir_inodes_
           /\ OnlyDirectories(dir_inodes_', db'))]_vars

\* ------------------------------------------------------------------------
\* Worker: the tiers, the map and the policy between calls
\* ------------------------------------------------------------------------
WorkerCalls ==
  {"CreateBlock", "ReadBlock", "WriteBlock", "RemoveBlock", "PromoteBlock",
   "EvictBlocks"}

\* Each block is stored in at most one tier, and the block-to-tier map has
\* an id exactly when a tier stores the block, and names that tier.
OneTierPerBlock(tiers, map) ==
  \A id \in BlockIds :
    /\ Cardinality(Holders(tiers, id)) <= 1
    /\ id \in DOMAIN map <=> Holders(tiers, id) # {}
    /\ id \in DOMAIN map => Holders(tiers, id) = {map[id]}

\* C34: between block operations each block id is stored in at most one
\* tier, and the block-to-tier map contains an id exactly when some tier
\* stores that block, naming that tier; every call in which no I/O fails
\* keeps this, create_block on an id that already exists included.
C34_MapAgreesWithTiers ==
  [][(/\ WCalled(WorkerCalls)
      /\ ~lastW'.faulty
      /\ OneTierPerBlock(tiers_, block_tier_map_))
       => OneTierPerBlock(tiers_', block_tier_map_')]_vars

\* Every block of the block-to-tier map is in the eviction policy and has
\* its size recorded by the cache manager.
MappedBlocksTracked(W) ==
  \A id \in DOMAIN W.map :
    /\ InPolicy(W.pol, id)
    /\ id \in DOMAIN W.sizes
    /\ \E ty \in Holders(W.tiers, id) : W.sizes[id] = W.tiers[ty].blocks_[id]

\* C35: in a worker with more than one tier every block of the
\* block-to-tier map is tracked by the eviction policy with its size, so it
\* can be chosen as an eviction candidate; every create, read, promote,
\* remove and evict call in which no I/O fails keeps this.
C35_MappedBlocksAreTracked ==
  [][(/\ Cardinality(DOMAIN tiers_) > 1
      /\ WCalled({"CreateBlock", "ReadBlock", "PromoteBlock", "RemoveBlock",
                  "EvictBlocks"})
      /\ ~lastW'.faulty
      /\ OneTierPerBlock(tiers_, block_tier_map_)
      /\ MappedBlocksTracked(Engine))
       => MappedBlocksTracked([tiers |-> tiers_', meta |-> meta_store_',
                               map |-> block_tier_map_', pol |-> policy_',
                               sizes |-> block_sizes_',
                               total |-> total_cached_bytes_'])]_vars

\* ------------------------------------------------------------------------
\* Worker: remove_block while the block is read
\* ------------------------------------------------------------------------
\* C36: when remove_block runs at the same time as read_block on the same
\* block, once both calls have returned the block is absent everywhere: no
\* metadata record remains, and the block-to-tier map, the tiers and the
\* eviction policy do not contain it.  (No other thread promotes the
\* block.)
C36_RemovedBlockIsAbsent ==
  (/\ n_removes > 0
   /\ n_promotes = 0
   /\ tpc["remover"] = "idle"
   /\ tpc["reader"] = "idle")
    => /\ TheBlock \notin DOMAIN meta_store_
       /\ TheBlock \notin DOMAIN block_tier_map_
       /\ Holders(tiers_, TheBlock) = {}
       /\ ~InPolicy(policy_, TheBlock)

\* ------------------------------------------------------------------------
\* Master: the heartbeat checker, call by call
\* ------------------------------------------------------------------------
\* The orders in which a loop over an unordered container can visit S.
Orderings(S) ==
  {s \in [1..Cardinality(S) -> S] :
     \A i, j \in 1..Cardinality(S) : i # j => s[i] # s[j]}

\* MasterServer::HeartbeatCheckLoop, the call of CheckHeartbeats: the
\* workers whose heartbeat is too old are marked not alive under the
\* registry's lock and returned in the vector dead.
CheckerScan ==
  /\ dead_ = <<>>
  /\ cops < MaxCOps
  /\ LET R == CheckHeartbeats(Registry, now) IN
     /\ workers_' = R.WM.workers
     /\ dead_' \in Orderings(R.dead)
     /\ lastC' = [NoCCall EXCEPT !.kind = "CheckHeartbeats", !.dead = R.dead]
  /\ cops' = cops + 1
  /\ UNCHANGED <<mvars, wvars, dvars, kvars, svars, lvars, pvars, rvars, xvars,
                 worker_next_id_, block_locations_, worker_blocks_, now,
                 worker_id_, held, started>>

\* MasterServer::HeartbeatCheckLoop, one round of the loop over dead:
\* RemoveWorkerBlocks for the next worker id of the vector.
CheckerRemove ==
  /\ dead_ # <<>>
  /\ cops < MaxCOps
  /\ LET BM == RemoveWorkerBlocks(Locations, Head(dead_)) IN
     /\ block_locations_' = BM.locs
     /\ worker_blocks_' = BM.wblocks
  /\ dead_' = Tail(dead_)
  /\ lastC' = [NoCCall EXCEPT !.kind = "RemoveWorkerBlocks",
                              !.worker = Head(dead_)]
  /\ cops' = cops + 1
  /\ UNCHANGED <<mvars, wvars, dvars, kvars, svars, lvars, pvars, rvars, xvars,
                 workers_, worker_next_id_, now, worker_id_, held, started>>

\* The heartbeat checker beside the worker processes.
HNext ==
  \/ \E a \in Addresses : WorkerStart(a)
  \/ \E a \in Addresses : WorkerHeartbeat(a)
  \/ \E a \in Addresses : WorkerWriteBlock(a)
  \/ Tick
  \/ CheckerScan
  \/ CheckerRemove

SpecChecker == CInit /\ [][HNext]_vars

\* C37: the heartbeat checker drops block locations only of workers that
\* are not alive at the moment of the drop: a location of a worker that a
\* heartbeat has marked alive again is not deleted by a pass of the checker
\* that had judged the worker dead earlier.
C37_CheckerDropsOnlyDeadWorkers ==
  [][CCalled({"RemoveWorkerBlocks"}) =>
       \A b \in DOMAIN block_locations_ :
         \A w \in LocatedAt(block_locations_, b) \ LocatedAt(block_locations_', b) :
           w \notin Alive]_vars

\* ------------------------------------------------------------------------
\* Worker and master: registration after the master has restarted
\* ------------------------------------------------------------------------
\* WorkerServer::HeartbeatLoop, one round of a worker process at address a
\* that holds the worker id `id`: the registry and the id after it.  A
\* worker without an id registers; a worker with an id sends Heartbeat and
\* only logs a failure.
HeartbeatRound(WM, id, a, used, t) ==
  IF id = kInvalidWorkerId
  THEN LET R == RegisterWorker(WM, a, WorkerCapacity, used, t)
       IN [WM |-> R.WM, id |-> R.id]
  ELSE [WM |-> Heartbeat(WM, id, WorkerCapacity, used, t).WM, id |-> id]

\* n rounds of the loop.
RECURSIVE HeartbeatRounds(_, _, _, _, _, _)
HeartbeatRounds(WM, id, a, used, t, n) ==
  IF n = 0 THEN [WM |-> WM, id |-> id]
  ELSE LET R == HeartbeatRound(WM, id, a, used, t)
       IN HeartbeatRounds(R.WM, R.id, a, used, t, n - 1)

\* The registry WM lists an alive worker at address a.
RegisteredAlive(WM, a) ==
  \E id \in DOMAIN WM.workers :
    WM.workers[id].address = a /\ WM.workers[id].alive

\* C38: when the master has restarted and lost its registry while a worker
\* process keeps running and reaches the master, the worker becomes
\* registered and alive at the master again: after the rounds of its
\* heartbeat loop the registry lists an alive worker at its address.
C38_RunningWorkerRegistersAgain ==
  \A a \in started : \A used \in Used :
    RegisteredAlive(
      HeartbeatRounds(Registry, worker_id_[a], a, used, now, MaxRounds).WM, a)

\* ------------------------------------------------------------------------
\* Master: what mkdir answers
\* ------------------------------------------------------------------------
\* C39: mkdir returns OK only if the path denotes a directory afterwards;
\* mkdir on a path whose last component exists as a file does not report
\* success.
C39_MkdirOkMeansDirectory ==
  \A parts \in Paths, mode \in Modes, recursive \in BOOLEAN :
    LET R == FsMkdir(Tree, parts, mode, recursive)
        at == GetInodeByPath(R.T, parts)
    IN R.status = "OK" => (at.status = "OK" /\ at.inode.is_directory)

====
